---- MODULE Spec2Model ----
(***************************************************************************)
(* QAStudio.dev reporter for Playwright: the transport client              *)
(* (src/src/api-client.ts) and the run aggregator (src/unnamed/part_002,   *)
(* the QAStudioReporter class), as one state machine, with the utility     *)
(* functions of src/src/utils.ts as operators.                             *)
(*                                                                         *)
(* A step of the machine is the synchronous code a JavaScript task runs    *)
(* between two suspension points: a lifecycle callback up to its first     *)
(* await, or the resumption of an await up to the next one.                *)
(***************************************************************************)
EXTENDS Integers, Sequences, FiniteSets, TLC

\* ------------------------------------------------------------------ bounds
\* largest maxRetries option of the transport-only specification
ClientMaxRetries == 6
\* largest TestCase.retries of a test
MaxTestRetries == 1
\* the test callbacks stop once totalTests has reached this
MaxCounted == 3

\* --------------------------------------------------------------- variables
VARIABLES
    maxRetries,    \* QAStudioAPIClient.maxRetries (readonly, set by the constructor)
    call,          \* the logical remote call in progress: request / uploadMultipart frame
    wire,          \* what went over the wire for the current logical call (observation)
    options,       \* QAStudioReporter.options: silent, createTestRun, testRunId, batchSize
    retries,       \* TestCase.retries of every test of the suite, by title-path key
    tests,         \* state.tests: the Map's entries in insertion order
    testRunId,     \* state.testRunId ("" is undefined)
    totalTests,
    passedTests,
    failedTests,
    skippedTests,
    pc,            \* where the reporter's lifecycle is suspended
    batches,       \* sendTestResults: const batches
    i,             \* sendTestResults: the loop variable
    submitted,     \* the batches handed to submitTestResults, in call order (observation)
    completed,     \* the summaries handed to completeTestRun, in call order (observation)
    raised,        \* the lifecycle callbacks that rejected into the host (observation)
    fw,            \* the host framework, per test: whether an attempt is running, the
                   \* index of the current or last attempt, the status the last one
                   \* ended with, whether an attempt with index test.retries has ended
    startTime,     \* state.startTime ("unset" is undefined)
    input,         \* the arguments of the utility function under study
    output         \* what the function returned or threw for them

clientVars == <<maxRetries, call, wire>>
counterVars == <<totalTests, passedTests, failedTests, skippedTests>>
configVars == <<options, retries>>
pureVars == <<input, output>>
stateVars == <<maxRetries, call, wire, options, retries, tests, testRunId, totalTests,
               passedTests, failedTests, skippedTests, pc, batches, i, submitted,
               completed, raised, fw, startTime>>
sendVars == <<batches, i, submitted, completed>>
reporterVars == <<options, retries, tests, testRunId, totalTests, passedTests, failedTests,
                  skippedTests, pc, batches, i, submitted, completed, raised, fw,
                  startTime, input, output>>
vars == <<maxRetries, call, wire, options, retries, tests, testRunId, totalTests,
          passedTests, failedTests, skippedTests, pc, batches, i, submitted, completed,
          raised, fw, startTime, input, output>>

\* ------------------------------------------------------- transport client
\* HTTP status codes the service may answer with (res.statusCode || 0)
StatusCodes == {0, 199, 200, 299, 300, 399, 400, 404, 499, 500, 503}

JsonOps == {"createTestRun", "submitTestResults", "completeTestRun"}
MultipartOps == {"uploadAttachment"}
RemoteOps == JsonOps \cup MultipartOps

\* lastError = null
NullError == [name |-> "null", statusCode |-> -1, message |-> "", at |-> -1]

\* class APIError: statusCode and message; `at` is the identity of the error
\* object, the index of the HTTP attempt that created it
APIError(statusCode, at) ==
    [name |-> "APIError", statusCode |-> statusCode, message |-> "API Error", at |-> at]

\* a plain Error object (no statusCode property)
PlainError(message, at) ==
    [name |-> "Error", statusCode |-> -1, message |-> message, at |-> at]

\* What can happen to one HTTP attempt: the service answers with a status and
\* a body that parses or not, the connection fails, or the timeout fires.
\* `processed`: the service acted on the request (always, when it answers 2xx;
\* possibly, when the answer was lost to a connection error or a timeout).
\* `errors`: the parsed body of a 2xx answer lists per-result errors
\* (SubmitTestResultsResponse.errors is non-empty).
\* `empty`: the body of a 2xx answer is the empty string, which is not parsed.
Outcomes ==
    [kind : {"response"}, status : {200, 299}, bodyOk : BOOLEAN, processed : {TRUE},
     errors : {FALSE}, empty : {FALSE}]
    \cup [kind : {"response"}, status : {200}, bodyOk : {TRUE}, processed : {TRUE},
          errors : {TRUE}, empty : {FALSE}]
    \cup [kind : {"response"}, status : {200}, bodyOk : {TRUE}, processed : {TRUE},
          errors : {FALSE}, empty : {TRUE}]
    \cup [kind : {"response"}, status : StatusCodes \ {200, 299}, bodyOk : {TRUE},
          processed : {FALSE}, errors : {FALSE}, empty : {FALSE}]
    \cup [kind : {"error", "timeout"}, status : {0}, bodyOk : {TRUE}, processed : BOOLEAN,
          errors : {FALSE}, empty : {FALSE}]

\* no value: the promise is pending or was rejected
NoValue == [at |-> -1, errors |-> FALSE, id |-> "", empty |-> FALSE]

\* resolve(parsed): the parsed body of the answer to attempt `at`; `id` is the
\* identifier the service gives the run it created (CreateTestRunResponse.id);
\* for an empty body parsed is {}, an object without properties
Parsed(o, at) ==
    [at |-> at, errors |-> o.errors, id |-> IF o.empty THEN "" ELSE "run-created",
     empty |-> o.empty]

\* makeRequest's promise: resolve(parsed) or reject(error)
makeRequest(o, at) ==
    CASE o.kind = "error" ->
             [ok |-> FALSE, error |-> PlainError("network", at), value |-> NoValue]
      [] o.kind = "timeout" ->
             [ok |-> FALSE, error |-> PlainError("Request timeout", at), value |-> NoValue]
      [] OTHER ->
          IF o.status >= 200 /\ o.status < 300
          THEN IF o.bodyOk
               THEN [ok |-> TRUE, error |-> NullError, value |-> Parsed(o, at)]
               ELSE [ok |-> FALSE, error |-> PlainError("Failed to parse response", at),
                     value |-> NoValue]
          ELSE [ok |-> FALSE, error |-> APIError(o.status, at), value |-> NoValue]

\* makeMultipartRequest's promise: its handlers repeat makeRequest's
makeMultipartRequest(o, at) ==
    CASE o.kind = "error" ->
             [ok |-> FALSE, error |-> PlainError("network", at), value |-> NoValue]
      [] o.kind = "timeout" ->
             [ok |-> FALSE, error |-> PlainError("Request timeout", at), value |-> NoValue]
      [] OTHER ->
          IF o.status >= 200 /\ o.status < 300
          THEN IF o.bodyOk
               THEN [ok |-> TRUE, error |-> NullError, value |-> Parsed(o, at)]
               ELSE [ok |-> FALSE, error |-> PlainError("Failed to parse response", at),
                     value |-> NoValue]
          ELSE [ok |-> FALSE, error |-> APIError(o.status, at), value |-> NoValue]

Min(a, b) == IF a < b THEN a ELSE b

\* a backoff that doubles without the cap
backoffUncapped(attempt) == 1000 * 2^attempt

\* Math.min(1000 * Math.pow(2, attempt), 10000)
backoff(attempt) == Min(1000 * 2^attempt, 10000)

\* a client-error test that also ends the call on a body that does not parse
isClientErrorOrParse(error) ==
    \/ error.name = "APIError" /\ error.statusCode >= 400 /\ error.statusCode < 500
    \/ error.message = "Failed to parse response"

\* a client-error test that lets status 400 through to the retry loop
isClientErrorAbove400(error) ==
    error.name = "APIError" /\ error.statusCode > 400 /\ error.statusCode < 500

\* error instanceof APIError && error.statusCode >= 400 && error.statusCode < 500
isClientError(error) ==
    error.name = "APIError" /\ error.statusCode >= 400 /\ error.statusCode < 500

\* a loop exit that throws a fresh error and drops the last attempt's
exhaustedFresh(lastError) == PlainError("Request failed after all retries", -1)

\* throw lastError || new Error('Request failed after all retries')
exhausted(lastError) ==
    IF lastError = NullError THEN PlainError("Request failed after all retries", -1)
    ELSE lastError

IdleCall ==
    [op |-> "none", phase |-> "idle", attempt |-> 0, lastError |-> NullError,
     error |-> NullError, value |-> NoValue]

\* attempts: HTTP attempts sent; sleeps: the backoff delays slept, in order;
\* served: the attempts the service acted on
NoWire == [attempts |-> 0, sleeps |-> <<>>, served |-> 0]

\* a loop that runs while attempt <= maxRetries
requestLoopOneMore(op, attempt, lastError, w) ==
    IF attempt <= maxRetries
    THEN IF attempt > 0
         THEN [call |-> [op |-> op, phase |-> "sleeping", attempt |-> attempt,
                         lastError |-> lastError, error |-> NullError, value |-> NoValue],
               wire |-> [w EXCEPT !.sleeps = Append(@, backoff(attempt))]]
         ELSE [call |-> [op |-> op, phase |-> "inflight", attempt |-> attempt,
                         lastError |-> lastError, error |-> NullError, value |-> NoValue],
               wire |-> [w EXCEPT !.attempts = @ + 1]]
    ELSE [call |-> [op |-> op, phase |-> "thrown", attempt |-> attempt,
                    lastError |-> lastError, error |-> exhausted(lastError),
                    value |-> NoValue],
          wire |-> w]

\* The head of request's for loop with the loop variable at `attempt`: leave
\* the loop and throw, sleep before a retry, or send the first attempt.
\* Gives the call frame and the wire observation that follow.
requestLoop(op, attempt, lastError, w) ==
    IF attempt < maxRetries
    THEN IF attempt > 0
         THEN [call |-> [op |-> op, phase |-> "sleeping", attempt |-> attempt,
                         lastError |-> lastError, error |-> NullError, value |-> NoValue],
               wire |-> [w EXCEPT !.sleeps = Append(@, backoff(attempt))]]
         ELSE [call |-> [op |-> op, phase |-> "inflight", attempt |-> attempt,
                         lastError |-> lastError, error |-> NullError, value |-> NoValue],
               wire |-> [w EXCEPT !.attempts = @ + 1]]
    ELSE [call |-> [op |-> op, phase |-> "thrown", attempt |-> attempt,
                    lastError |-> lastError, error |-> exhausted(lastError),
                    value |-> NoValue],
          wire |-> w]

\* a multipart loop that retries at once, without the backoff sleep
uploadMultipartLoopNoSleep(op, attempt, lastError, w) ==
    IF attempt < maxRetries
    THEN [call |-> [op |-> op, phase |-> "inflight", attempt |-> attempt,
                    lastError |-> lastError, error |-> NullError, value |-> NoValue],
          wire |-> [w EXCEPT !.attempts = @ + 1]]
    ELSE [call |-> [op |-> op, phase |-> "thrown", attempt |-> attempt,
                    lastError |-> lastError, error |-> exhausted(lastError),
                    value |-> NoValue],
          wire |-> w]

\* The head of uploadMultipart's for loop
uploadMultipartLoop(op, attempt, lastError, w) ==
    IF attempt < maxRetries
    THEN IF attempt > 0
         THEN [call |-> [op |-> op, phase |-> "sleeping", attempt |-> attempt,
                         lastError |-> lastError, error |-> NullError, value |-> NoValue],
               wire |-> [w EXCEPT !.sleeps = Append(@, backoff(attempt))]]
         ELSE [call |-> [op |-> op, phase |-> "inflight", attempt |-> attempt,
                         lastError |-> lastError, error |-> NullError, value |-> NoValue],
               wire |-> [w EXCEPT !.attempts = @ + 1]]
    ELSE [call |-> [op |-> op, phase |-> "thrown", attempt |-> attempt,
                    lastError |-> lastError, error |-> exhausted(lastError),
                    value |-> NoValue],
          wire |-> w]

\* request is entered: let lastError = null, attempt = 0
request(op) == requestLoop(op, 0, NullError, NoWire)

\* uploadMultipart is entered
uploadMultipart(op) == uploadMultipartLoop(op, 0, NullError, NoWire)

\* the catch block of request: remember the error, rethrow a client error,
\* else go round the loop (attempt++)
requestCatch(c, error, w) ==
    IF isClientError(error)
    THEN [call |-> [c EXCEPT !.phase = "thrown", !.lastError = error, !.error = error],
          wire |-> w]
    ELSE requestLoop(c.op, c.attempt + 1, error, w)

\* the catch block of uploadMultipart
uploadMultipartCatch(c, error, w) ==
    IF isClientError(error)
    THEN [call |-> [c EXCEPT !.phase = "thrown", !.lastError = error, !.error = error],
          wire |-> w]
    ELSE uploadMultipartLoop(c.op, c.attempt + 1, error, w)

\* what the service saw of an attempt with outcome o
observe(w, o) ==
    [w EXCEPT !.served = @ + (IF o.processed THEN 1 ELSE 0)]

\* await this.sleep(...) resumes and the attempt is sent
sleep ==
    /\ call.phase = "sleeping"
    /\ call' = [call EXCEPT !.phase = "inflight"]
    /\ wire' = [wire EXCEPT !.attempts = @ + 1]

\* await this.makeRequest(...) settles inside request
requestSettle(o) ==
    /\ call.phase = "inflight"
    /\ call.op \in JsonOps
    /\ LET r == makeRequest(o, call.attempt)
           n == IF r.ok
                THEN [call |-> [call EXCEPT !.phase = "returned", !.value = r.value],
                      wire |-> observe(wire, o)]
                ELSE requestCatch(call, r.error, observe(wire, o))
       IN /\ call' = n.call
          /\ wire' = n.wire

\* await this.makeMultipartRequest(...) settles inside uploadMultipart
uploadMultipartSettle(o) ==
    /\ call.phase = "inflight"
    /\ call.op \in MultipartOps
    /\ LET r == makeMultipartRequest(o, call.attempt)
           n == IF r.ok
                THEN [call |-> [call EXCEPT !.phase = "returned", !.value = r.value],
                      wire |-> observe(wire, o)]
                ELSE uploadMultipartCatch(call, r.error, observe(wire, o))
       IN /\ call' = n.call
          /\ wire' = n.wire

\* ------------------------------------------------------------- reporter
\* TestResult.status values of Playwright
Statuses == {"passed", "failed", "timedOut", "skipped", "interrupted"}

\* the status of the result object onTestBegin is handed, before the attempt ends
Unset == "unset"

\* a caller that goes on while request is still in its backoff sleep
settledOrSleeping(c) == c.phase \in {"returned", "thrown", "sleeping"}

\* the call frame has left request: the awaiting caller resumes
settled(c) == c.phase \in {"returned", "thrown"}

\* a lookup that finds only the key set last
MapHasLast(m, key) == Len(m) > 0 /\ m[Len(m)].key = key

\* state.tests.get(testId) !== undefined
MapHas(m, key) == \E n \in 1..Len(m) : m[n].key = key

MapIndex(m, key) == CHOOSE n \in 1..Len(m) : m[n].key = key

\* a list that takes every set as a new entry
MapSetAppend(m, value) == Append(m, value)

\* state.tests.set(testId, value): a Map keeps the place of a key it already holds
MapSet(m, value) ==
    IF MapHas(m, value.key)
    THEN [m EXCEPT ![MapIndex(m, value.key)] = value]
    ELSE Append(m, value)

\* onTestBegin(test, result): state.tests.set(testId, {test, result, startTime})
onTestBegin(key, retry) ==
    /\ tests' = MapSet(tests, [key |-> key, retry |-> retry, status |-> Unset,
                               ended |-> FALSE])
    /\ UNCHANGED counterVars

\* a counter update whose write of the status bucket is lost
countLostBucket(status) ==
    /\ totalTests' = totalTests + 1
    /\ UNCHANGED <<passedTests, failedTests, skippedTests>>

\* a switch without the timedOut and interrupted cases
countNamedCasesOnly(status) ==
    /\ totalTests' = totalTests + 1
    /\ passedTests' = passedTests + (IF status = "passed" THEN 1 ELSE 0)
    /\ failedTests' = failedTests + (IF status = "failed" THEN 1 ELSE 0)
    /\ skippedTests' = skippedTests + (IF status = "skipped" THEN 1 ELSE 0)

\* onTestEnd's counter update for a result with result.retry === test.retries
count(status) ==
    /\ totalTests' = totalTests + 1
    /\ passedTests' = passedTests + (IF status = "passed" THEN 1 ELSE 0)
    /\ failedTests' = failedTests + (IF status \in {"failed", "timedOut"} THEN 1 ELSE 0)
    /\ skippedTests' = skippedTests + (IF status \in {"skipped", "interrupted"} THEN 1 ELSE 0)

\* a reporter that counts every attempt up to the last one
isFinalEveryAttempt(key, retry) == retry <= retries[key]

\* result.retry === test.retries
isFinal(key, retry) == retry = retries[key]

\* a test-end that makes the entry it does not find
onTestEndUpsert(key, retry, status) ==
    /\ tests' = MapSet(tests, [key |-> key, retry |-> retry, status |-> status,
                               ended |-> TRUE])
    /\ IF isFinal(key, retry) THEN count(status) ELSE UNCHANGED counterVars

\* onTestEnd(test, result)
onTestEnd(key, retry, status) ==
    IF ~MapHas(tests, key)
    THEN UNCHANGED <<tests, counterVars>>
    ELSE /\ tests' = [tests EXCEPT ![MapIndex(tests, key)] =
                         [key |-> key, retry |-> retry, status |-> status, ended |-> TRUE]]
         /\ IF isFinal(key, retry) THEN count(status) ELSE UNCHANGED counterVars

\* a mapping that passes every status through
mapTestStatusIdentity(status) == status

\* mapTestStatus(status)
mapTestStatus(status) ==
    CASE status = "passed" -> "passed"
      [] status = "failed" -> "failed"
      [] status = "timedOut" -> "timedOut"
      [] status \in {"skipped", "interrupted"} -> "skipped"
      [] OTHER -> "failed"

\* convertTestResult(test, result, startTime): the record sent for an entry
convertTestResult(e) ==
    [key |-> e.key, status |-> mapTestStatus(e.status), retry |-> e.retry]

\* sendTestResults: testData.result.retry === testData.test.retries
selected(e) == e.retry = retries[e.key]

\* sendTestResults: const results, in the Map's order
results ==
    LET final == SelectSeq(tests, selected)
    IN [n \in 1..Len(final) |-> convertTestResult(final[n])]

\* a chunking that drops a last batch shorter than size
RECURSIVE batchArrayFullOnly(_, _)
batchArrayFullOnly(array, size) ==
    IF Len(array) < size THEN <<>>
    ELSE <<SubSeq(array, 1, size)>>
             \o batchArrayFullOnly(SubSeq(array, size + 1, Len(array)), size)

\* batchArray(array, size), for size >= 1
RECURSIVE batchArray(_, _)
batchArray(array, size) ==
    IF Len(array) = 0 THEN <<>>
    ELSE <<SubSeq(array, 1, Min(size, Len(array)))>>
             \o batchArray(SubSeq(array, Min(size, Len(array)) + 1, Len(array)), size)

\* batchArray's loop, for (let i = 0; i < array.length; i += size), never
\* leaves: i starts below array.length and size does not raise it
loopsForever(array, size) == Len(array) > 0 /\ size <= 0

\* a reporter that treats an answer listing per-result errors as a failed call
caughtOrErrors(c) == c.phase = "thrown" \/ c.value.errors

\* the awaited call rejected: the catch block around it is entered
caught(c) == c.phase = "thrown"

\* a handler that throws in silent mode and logs in non-silent mode
handleErrorInverted == options.silent

\* a handler that never throws
handleErrorNever == FALSE

\* a handler that throws in silent mode too
handleErrorThrows == TRUE

\* handleError(message, error): TRUE when it throws
handleError == ~options.silent

\* onEnd: the summary argument of completeTestRun
summary ==
    [total |-> totalTests, passed |-> passedTests, failed |-> failedTests,
     skipped |-> skippedTests]

\* a reporter step enters request(op)
enter(op) ==
    /\ call' = request(op).call
    /\ wire' = request(op).wire

\* a reporter that asks for a new run whenever createTestRun is set
mustCreateAlways == options.createTestRun

\* onBegin: this.options.createTestRun && !this.options.testRunId
mustCreate == options.createTestRun /\ options.testRunId = ""

\* onBegin(config, suite), up to its await or to its end
onBegin ==
    /\ pc = "new"
    /\ startTime' = "set"
    /\ IF mustCreate
       THEN /\ enter("createTestRun")
            /\ pc' = "onBegin"
            /\ UNCHANGED testRunId
       ELSE /\ testRunId' = options.testRunId
            /\ pc' = "running"
            /\ UNCHANGED <<call, wire>>
    /\ UNCHANGED <<tests, counterVars, sendVars, raised>>

\* onBegin resumes from await this.apiClient.createTestRun(...)
onBeginResume ==
    /\ pc = "onBegin"
    /\ settled(call)
    /\ IF call.phase = "returned"
       THEN /\ testRunId' = call.value.id
            /\ UNCHANGED raised
       ELSE /\ UNCHANGED testRunId
            /\ raised' = IF handleError THEN raised \cup {"onBegin"} ELSE raised
    /\ pc' = "running"
    /\ UNCHANGED <<call, wire, tests, counterVars, sendVars, startTime>>

\* onEnd: await this.apiClient.completeTestRun({testRunId, summary}) is entered
completeTestRun ==
    /\ enter("completeTestRun")
    /\ completed' = Append(completed, summary)
    /\ pc' = "completeTestRun"

\* sendTestResults: await this.apiClient.submitTestResults({testRunId, results: batch})
\* is entered for batch n (0-based) of bs
submitTestResults(bs, n) ==
    /\ enter("submitTestResults")
    /\ submitted' = Append(submitted, bs[n + 1])
    /\ i' = n
    /\ pc' = "sendTestResults"

\* a reporter that finalizes without looking at the run identifier
noRunIdNever == FALSE

\* sendTestResults: !this.state.testRunId, and onEnd: the else of
\* if (this.state.testRunId)
noRunId == testRunId = ""

\* onEnd(result), up to its first await or to its end, or into the loop of
\* batchArray that it never leaves
onEnd ==
    /\ pc = "running"
    /\ IF noRunId
       THEN /\ pc' = "done"
            /\ UNCHANGED <<call, wire, sendVars>>
       ELSE IF loopsForever(results, options.batchSize)
       THEN /\ pc' = "batchArray"
            /\ UNCHANGED <<call, wire, sendVars>>
       ELSE LET bs == batchArray(results, options.batchSize)
            IN /\ batches' = bs
               /\ IF Len(bs) = 0
                  THEN completeTestRun /\ UNCHANGED <<i, submitted>>
                  ELSE submitTestResults(bs, 0) /\ UNCHANGED completed
    /\ UNCHANGED <<tests, counterVars, testRunId, raised, startTime>>

\* a loop that hands a failed batch to submitTestResults once more
sendTestResultsResubmit ==
    /\ pc = "sendTestResults"
    /\ settled(call)
    /\ IF caught(call) /\ Len(submitted) <= Len(batches)
       THEN submitTestResults(batches, i) /\ UNCHANGED <<completed, batches>>
       ELSE IF i + 1 < Len(batches)
       THEN submitTestResults(batches, i + 1) /\ UNCHANGED <<completed, batches>>
       ELSE completeTestRun /\ UNCHANGED <<i, submitted, batches>>
    /\ UNCHANGED <<tests, counterVars, testRunId, startTime, raised>>

\* sendTestResults resumes from await this.apiClient.submitTestResults(...):
\* a failure goes to handleError, which throws out of the loop and out of
\* onEnd's try in non-silent mode; otherwise the loop goes on
sendTestResultsResume ==
    /\ pc = "sendTestResults"
    /\ settled(call)
    /\ IF caught(call) /\ handleError
       THEN /\ raised' = raised \cup {"onEnd"}
            /\ pc' = "done"
            /\ UNCHANGED <<call, wire, sendVars>>
       ELSE /\ IF i + 1 < Len(batches)
               THEN submitTestResults(batches, i + 1) /\ UNCHANGED <<completed, batches>>
               ELSE completeTestRun /\ UNCHANGED <<i, submitted, batches>>
            /\ UNCHANGED raised
    /\ UNCHANGED <<tests, counterVars, testRunId, startTime>>

\* this.apiClient.triggerNotifications: QAStudioAPIClient defines no such method,
\* so the call expression throws a TypeError before anything is sent
triggerNotifications == "thrown"

\* the frame of the call expression this.apiClient.triggerNotifications({...}):
\* it ends at once with the TypeError, and no HTTP attempt is made
TriggerCall ==
    [IdleCall EXCEPT !.op = "triggerNotifications", !.phase = triggerNotifications,
                     !.error = [name |-> "TypeError", statusCode |-> -1,
                                message |-> "is not a function", at |-> -1]]

\* a reporter that triggers the notifications whether or not the run was completed
onEndResumeTriggerAlways ==
    /\ pc = "completeTestRun"
    /\ settled(call)
    /\ call' = TriggerCall
    /\ raised' = IF handleError THEN raised \cup {"onEnd"} ELSE raised
    /\ pc' = "done"
    /\ UNCHANGED <<wire, tests, counterVars, testRunId, sendVars, startTime>>

\* onEnd resumes from await this.apiClient.completeTestRun(...): after a
\* completion that returned, the notification trigger is evaluated
onEndResume ==
    /\ pc = "completeTestRun"
    /\ settled(call)
    /\ call' = IF call.phase = "returned" THEN TriggerCall ELSE call
    /\ LET failed == call.phase = "thrown" \/ triggerNotifications = "thrown"
       IN raised' = IF failed /\ handleError THEN raised \cup {"onEnd"} ELSE raised
    /\ pc' = "done"
    /\ UNCHANGED <<wire, tests, counterVars, testRunId, sendVars, startTime>>

\* ------------------------------------------------------ configurations
\* batchSize: sanitizedOptions.batchSize ?? 10
DefaultBatchSize == 10
\* maxRetries: options.maxRetries ?? 3
DefaultMaxRetries == 3

BatchSizes == {1, 2, DefaultBatchSize}

AllOptions ==
    [silent : BOOLEAN, createTestRun : BOOLEAN, testRunId : {"", "run-option"},
     batchSize : BatchSizes]

DefaultOptions ==
    [silent |-> TRUE, createTestRun |-> TRUE, testRunId |-> "", batchSize |-> DefaultBatchSize]

\* title-path keys of the suite's tests
Tests2 == {"a", "b"}
Tests3 == {"a", "b", "c"}

\* no utility function is under study
NoInput == [fn |-> "none"]
NoOutput == [fn |-> "none"]

\* The state after new QAStudioReporter(options), for a suite with the tests T
Fresh(T) ==
    /\ call = IdleCall
    /\ wire = NoWire
    /\ tests = <<>>
    /\ testRunId = ""
    /\ startTime = "unset"
    /\ totalTests = 0
    /\ passedTests = 0
    /\ failedTests = 0
    /\ skippedTests = 0
    /\ pc = "new"
    /\ batches = <<>>
    /\ i = 0
    /\ submitted = <<>>
    /\ completed = <<>>
    /\ raised = {}
    /\ fw = [k \in T |-> [active |-> FALSE, attempt |-> -1, status |-> "none",
                           final |-> FALSE]]

\* that state, with no utility function under study
Constructed(T) ==
    /\ Fresh(T)
    /\ input = NoInput
    /\ output = NoOutput

\* ------------------------------------------------------- the environment
\* the outcomes of an HTTP attempt the reporter specifications draw from
CoreOutcomes ==
    {o \in Outcomes : o.status \in {0, 200, 404, 500} /\ o.kind # "error" /\ ~o.empty}

\* the service answers, with success or with a server error
AnsweredOutcomes ==
    {o \in CoreOutcomes : o.status \in {200, 500} /\ o.bodyOk /\ ~o.errors}

\* the outcomes whose answer lists no per-result errors
PlainOutcomes == {o \in CoreOutcomes : ~o.errors}

\* A host that may run any attempt of any test, any number of times, the
\* attempts of one test one after the other, those of different tests interleaved
HostTestBegin(k, r) ==
    /\ pc = "running"
    /\ totalTests < MaxCounted
    /\ ~fw[k].active
    /\ onTestBegin(k, r)
    /\ fw' = [fw EXCEPT ![k].active = TRUE, ![k].attempt = r]
    /\ UNCHANGED <<clientVars, configVars, pureVars, testRunId, startTime, pc,
                   sendVars, raised>>

HostTestEnd(k, s) ==
    /\ pc = "running"
    /\ fw[k].active
    /\ onTestEnd(k, fw[k].attempt, s)
    /\ fw' = [fw EXCEPT ![k].active = FALSE,
                        ![k].final = @ \/ fw[k].attempt = retries[k]]
    /\ UNCHANGED <<clientVars, configVars, pureVars, testRunId, startTime, pc,
                   sendVars, raised>>

\* Playwright reruns an attempt that failed or timed out, up to test.retries times
Retryable == {"failed", "timedOut"}

\* Playwright has nothing left to run of test k
Finished(k) ==
    /\ ~fw[k].active
    /\ fw[k].status # "none"
    /\ fw[k].status \notin Retryable \/ fw[k].attempt = retries[k]

\* Playwright starts the first or the next attempt of test k
PlaywrightTestBegin(k) ==
    /\ pc = "running"
    /\ ~fw[k].active
    /\ ~Finished(k)
    /\ onTestBegin(k, fw[k].attempt + 1)
    /\ fw' = [fw EXCEPT ![k].active = TRUE, ![k].attempt = @ + 1]
    /\ UNCHANGED <<clientVars, configVars, pureVars, testRunId, startTime, pc,
                   sendVars, raised>>

\* the running attempt of test k ends with status s
PlaywrightTestEnd(k, s) ==
    /\ pc = "running"
    /\ fw[k].active
    /\ onTestEnd(k, fw[k].attempt, s)
    /\ fw' = [fw EXCEPT ![k].active = FALSE, ![k].status = s,
                        ![k].final = @ \/ fw[k].attempt = retries[k]]
    /\ UNCHANGED <<clientVars, configVars, pureVars, testRunId, startTime, pc,
                   sendVars, raised>>

\* Playwright calls onEnd when no attempt is running
PlaywrightEnd ==
    /\ \A k \in DOMAIN fw : ~fw[k].active
    /\ onEnd
    /\ UNCHANGED <<maxRetries, configVars, fw, pureVars>>

Begin == onBegin /\ UNCHANGED <<maxRetries, configVars, fw, pureVars>>

BeginResume == onBeginResume /\ UNCHANGED <<maxRetries, configVars, fw, pureVars>>

End == onEnd /\ UNCHANGED <<maxRetries, configVars, fw, pureVars>>

SendResume == sendTestResultsResume /\ UNCHANGED <<maxRetries, configVars, fw, pureVars>>

EndResume == onEndResume /\ UNCHANGED <<maxRetries, configVars, fw, pureVars>>

Sleep == sleep /\ UNCHANGED <<maxRetries, reporterVars>>

Settle(o) == requestSettle(o) /\ UNCHANGED <<maxRetries, reporterVars>>

\* ------------------------------------------------------- specifications
\* The aggregator under every order of test callbacks: silent mode, an adopted
\* run and one HTTP attempt per call, so that onBegin and request never suspend
\* on a creation or a backoff
InitAgg ==
    /\ options \in {o \in AllOptions : o.testRunId # "" /\ o.createTestRun /\ o.silent
                                       /\ o.batchSize \in {1, DefaultBatchSize}}
    /\ maxRetries = 1
    /\ retries \in [Tests2 -> 0..MaxTestRetries]
    /\ Constructed(Tests2)

NextAgg ==
    \/ Begin
    \/ \E k \in DOMAIN retries : \E r \in 0..retries[k] : HostTestBegin(k, r)
    \/ \E k \in DOMAIN retries : \E s \in Statuses : HostTestEnd(k, s)
    \/ End
    \/ SendResume
    \/ EndResume
    \/ \E o \in AnsweredOutcomes : Settle(o)

SpecAgg == InitAgg /\ [][NextAgg]_vars

\* The whole lifecycle under every configuration: tests without retries
InitRun ==
    /\ options \in AllOptions
    /\ maxRetries \in 1..2
    /\ retries = [k \in Tests2 |-> 0]
    /\ Constructed(Tests2)

NextRun ==
    \/ Begin
    \/ BeginResume
    \/ \E k \in DOMAIN retries : HostTestBegin(k, 0)
    \/ \E k \in DOMAIN retries : \E s \in {"passed", "failed"} : HostTestEnd(k, s)
    \/ End
    \/ SendResume
    \/ EndResume
    \/ Sleep
    \/ \E o \in CoreOutcomes : Settle(o)

SpecRun == InitRun /\ [][NextRun]_vars

\* A Playwright run of three tests under the default configuration
InitPlaywright ==
    /\ options = DefaultOptions
    /\ maxRetries = DefaultMaxRetries
    /\ retries \in [Tests3 -> 0..MaxTestRetries]
    /\ Constructed(Tests3)

NextPlaywright ==
    \/ Begin
    \/ BeginResume
    \/ \E k \in DOMAIN retries : PlaywrightTestBegin(k)
    \/ \E k \in DOMAIN retries : \E s \in {"passed", "failed", "skipped"} :
          PlaywrightTestEnd(k, s)
    \/ PlaywrightEnd
    \/ SendResume
    \/ EndResume
    \/ Sleep
    \/ \E o \in PlainOutcomes : Settle(o)

SpecPlaywright == InitPlaywright /\ [][NextPlaywright]_vars

\* The transport client alone: a caller of any of the four operations, one
\* logical call at a time
ClientCall(op) ==
    /\ call.phase \in {"idle", "returned", "thrown"}
    /\ LET n == IF op \in JsonOps THEN request(op) ELSE uploadMultipart(op)
       IN /\ call' = n.call
          /\ wire' = n.wire
    /\ UNCHANGED <<maxRetries, reporterVars>>

ClientSettle(o) ==
    /\ IF call.op \in MultipartOps THEN uploadMultipartSettle(o) ELSE requestSettle(o)
    /\ UNCHANGED <<maxRetries, reporterVars>>

InitClient ==
    /\ maxRetries \in (-1)..ClientMaxRetries
    /\ options = DefaultOptions
    /\ retries = [k \in Tests2 |-> 0]
    /\ Constructed(Tests2)

NextClient ==
    \/ \E op \in RemoteOps : ClientCall(op)
    \/ Sleep
    \/ \E o \in Outcomes : ClientSettle(o)

SpecClient == InitClient /\ [][NextClient]_vars

\* ------------------------------------------------------------------ C1
\* the attempt of test k that ends in this step
EndsNow(k) == fw[k].active /\ ~fw'[k].active

\* the records handed to submitTestResults so far
Transmitted ==
    UNION {{submitted[b][n] : n \in 1..Len(submitted[b])} : b \in 1..Len(submitted)}

\* how many records were handed to submitTestResults so far
RECURSIVE SentCount(_)
SentCount(b) == IF b = 0 THEN 0 ELSE Len(submitted[b]) + SentCount(b - 1)

\* C1: among the test-begin/test-end pairs of one title-path key, only a pair
\* whose attempt index equals test.retries changes the summary counters, and
\* every transmitted record is that of such a pair: the end of an earlier
\* attempt leaves the counters unchanged and is never transmitted.
C1_OnlyFinalAttemptCounts ==
    /\ [][/\ \A k \in DOMAIN fw :
                EndsNow(k) /\ fw[k].attempt # retries[k] => UNCHANGED counterVars
          /\ counterVars' # counterVars =>
                \E k \in DOMAIN fw : EndsNow(k) /\ fw[k].attempt = retries[k]]_vars
    /\ [](\A rec \in Transmitted :
             /\ rec.retry = retries[rec.key]
             /\ \E n \in 1..Len(tests) :
                   /\ tests[n].key = rec.key
                   /\ tests[n].retry = rec.retry
                   /\ rec.status = mapTestStatus(tests[n].status))

\* C1 witness: the run is over, test "a" ended an attempt before its last one,
\* test "b" ended its last one, and only b's record was counted and transmitted
C1_Witness ==
    /\ pc = "done"
    /\ retries["a"] = 1
    /\ \E n \in 1..Len(tests) :
          tests[n] = [key |-> "a", retry |-> 0, status |-> "failed", ended |-> TRUE]
    /\ totalTests = 1
    /\ Transmitted = {[key |-> "b", status |-> "passed", retry |-> retries["b"]]}

\* ------------------------------------------------------------------ C4
\* C4 (as claimed): passed + failed + skipped equals the number of distinct
\* title-path keys whose attempt with index test.retries has begun and ended,
\* whatever the sequence of callbacks, a repeated terminal attempt included.
C4_SumIsDistinctFinalKeys ==
    passedTests + failedTests + skippedTests
        = Cardinality({k \in DOMAIN fw : fw[k].final})

\* ------------------------------------------------------------------ C2
\* the record of the last attempt Playwright ran of test k
LastRun(k) == [key |-> k, status |-> mapTestStatus(fw[k].status), retry |-> fw[k].attempt]

\* the tests of which Playwright ran an attempt to its end
Ran == {k \in DOMAIN fw : fw[k].status # "none"}

\* C2 (as claimed): when Playwright has run every test it started to its last
\* attempt and the run was completed, every test's last attempt is in the
\* summary and among the transmitted records, a test that passed or was
\* skipped before attempt test.retries included.
C2_LastAttemptReported ==
    (/\ pc = "done"
     /\ completed # <<>>
     /\ \A k \in Ran : Finished(k))
    => /\ completed[1].total = Cardinality(Ran)
       /\ completed[1].passed = Cardinality({k \in Ran : fw[k].status = "passed"})
       /\ \A k \in Ran : LastRun(k) \in Transmitted

\* ------------------------------------------------------------------ C3
\* two tests passed on their first attempt, the third failed and then passed
\* on its retry with test.retries = 1, and the run was created and is over
ThreeTestRun ==
    /\ pc = "done"
    /\ testRunId # ""
    /\ \A k \in {"a", "b"} :
          fw[k] = [active |-> FALSE, attempt |-> 0, status |-> "passed",
                   final |-> retries[k] = 0]
    /\ fw["c"] = [active |-> FALSE, attempt |-> 1, status |-> "passed", final |-> TRUE]
    /\ retries["c"] = 1

\* C3 (as claimed): such a run ends with one completion call carrying
\* total 3, passed 3, failed 0, skipped 0, and exactly three transmitted
\* records, the retried test's with attempt index 1.
C3_ThreeTestSummary ==
    ThreeTestRun =>
        /\ completed = <<[total |-> 3, passed |-> 3, failed |-> 0, skipped |-> 0]>>
        /\ SentCount(Len(submitted)) = 3
        /\ Cardinality(Transmitted) = 3
        /\ [key |-> "c", status |-> "passed", retry |-> 1] \in Transmitted

\* ------------------------------------------------------------------ C5
\* an APIError with a status code in [400,500)
Is4xx(e) == e.name = "APIError" /\ e.statusCode \in 400..499

\* C5: in each of the four remote operations, once an attempt is answered
\* with a status in [400,500) the call has ended: that attempt was the last
\* one sent, no backoff sleep followed it, and the error thrown to the caller
\* is that attempt's APIError; on the first attempt that is one HTTP attempt.
C5_ClientErrorEndsCall ==
    Is4xx(call.lastError) =>
        /\ call.phase = "thrown"
        /\ call.error = call.lastError
        /\ wire.attempts = call.lastError.at + 1
        /\ Len(wire.sleeps) = call.lastError.at

\* C5 witness: an attachment upload answered 404 on its third attempt
C5_Witness ==
    /\ call.op = "uploadAttachment"
    /\ call.phase = "thrown"
    /\ call.error = APIError(404, 2)
    /\ wire.attempts = 3

\* ------------------------------------------------------------------ C6
\* C6: a logical call that made attempts and ended with a failure that is no
\* 4xx (so every attempt failed with a 5xx or other non-4xx answer, a
\* connection error, a timeout or an unparsable body) made exactly maxRetries
\* HTTP attempts, and throws the error of the last attempt.
C6_BudgetExhausted ==
    (call.phase = "thrown" /\ wire.attempts >= 1 /\ ~Is4xx(call.error)) =>
        /\ wire.attempts = maxRetries
        /\ call.error.at = maxRetries - 1
        /\ call.error = call.lastError

\* C6 witness: with the default budget of 3, three attempts, the last timed out
C6_Witness ==
    /\ maxRetries = DefaultMaxRetries
    /\ call.phase = "thrown"
    /\ wire.attempts = 3
    /\ call.error = PlainError("Request timeout", 2)

\* ------------------------------------------------------------------ C7
\* min(1000 * 2^k, 10000), written without the operator the client uses
Delay(k) == IF 2^k >= 10 THEN 10000 ELSE 1000 * 2^k

\* C7: within one logical call one sleep precedes every attempt but the
\* first, the sleep before attempt k (0-based) is min(1000 * 2^k, 10000) ms,
\* and the delays are non-decreasing and never above 10000 ms.
C7_Backoff ==
    /\ Len(wire.sleeps) =
          IF call.phase = "sleeping" THEN wire.attempts
          ELSE IF wire.attempts = 0 THEN 0 ELSE wire.attempts - 1
    /\ \A k \in 1..Len(wire.sleeps) :
          /\ wire.sleeps[k] = Delay(k)
          /\ wire.sleeps[k] <= 10000
          /\ k > 1 => wire.sleeps[k - 1] <= wire.sleeps[k]

\* C7 witness: the fifth retry of a call, after sleeps up to the cap
C7_Witness ==
    /\ wire.attempts = 6
    /\ wire.sleeps = <<2000, 4000, 8000, 10000, 10000>>

\* ------------------------------------------------------------------ C8
\* C8 (as claimed): a logical createTestRun or submitTestResults call takes
\* effect at the service at most once, also when the answer to an attempt the
\* service acted on was lost or timed out and the client retried.
C8_AtMostOnce ==
    call.op \in {"createTestRun", "submitTestResults"} => wire.served <= 1

\* ------------------------------------------------------------------ C9
\* C9: batches are handed to submitTestResults one at a time and in batch
\* order, and a submission starts only in a step in which the call of the
\* previous submission has returned or thrown, retries and sleeps included:
\* no two submissions are in flight.
C9_SequentialBatches ==
    /\ [][Len(submitted') > Len(submitted) =>
             /\ Len(submitted') = Len(submitted) + 1
             /\ call'.op = "submitTestResults"
             /\ Len(submitted) > 0 =>
                   /\ call.op = "submitTestResults"
                   /\ call.phase \in {"returned", "thrown"}]_vars
    /\ [](/\ Len(submitted) <= Len(batches)
          /\ \A n \in 1..Len(submitted) : submitted[n] = batches[n]
          /\ pc = "sendTestResults" => Len(submitted) = i + 1)

\* C9 witness: the second of two batches is in the backoff sleep of its retry
C9_Witness ==
    /\ pc = "sendTestResults"
    /\ Len(batches) = 2
    /\ Len(submitted) = 2
    /\ call.phase = "sleeping"

\* ----------------------------------------------------------------- C10
\* C10 (as claimed): whenever a run identifier is held at suite end, the
\* completion call is attempted exactly once, after every batch has been
\* attempted, whatever the batch submissions' outcomes, in both modes.
C10_CompletedOnceInBothModes ==
    (pc = "done" /\ testRunId # "") =>
        /\ Len(completed) = 1
        /\ Len(submitted) = Len(batches)

\* C10 (amended): the completion call is attempted at most once and only
\* after every batch has been attempted; with a run identifier held at suite
\* end it is attempted exactly once in silent mode whatever the submissions'
\* outcomes, and in non-silent mode exactly once unless a batch submission
\* failed: that failure is raised by onEnd, and neither the later batches nor
\* the completion call are attempted.
C10_CompletedOnce ==
    /\ Len(completed) <= 1
    /\ completed # <<>> => testRunId # "" /\ Len(submitted) = Len(batches)
    /\ (pc = "done" /\ testRunId # "") =>
          IF ~options.silent /\ call.op = "submitTestResults"
          THEN /\ call.phase = "thrown"
               /\ completed = <<>>
               /\ "onEnd" \in raised
          ELSE Len(completed) = 1

\* C10 witness: non-silent mode, the first of two batches failed, onEnd
\* raised and no completion call was made
C10_Witness ==
    /\ pc = "done"
    /\ ~options.silent
    /\ Len(batches) = 2
    /\ Len(submitted) = 1
    /\ completed = <<>>
    /\ "onEnd" \in raised

\* C10 in silent mode: both batches failed and the run was still completed
C10_WitnessSilent ==
    /\ pc = "done"
    /\ options.silent
    /\ Len(submitted) = 2
    /\ Len(completed) = 1

\* ----------------------------------------------------------------- C11
\* C11: in silent mode no failure of a remote call (creation, submission,
\* completion, notification trigger) is raised to the host: neither onBegin
\* nor onEnd rejects.
C11_SilentNeverRaises ==
    options.silent => raised = {}

\* C11 witness: silent mode, two batches were submitted, the completion call
\* failed, onEnd is over and nothing was raised
C11_Witness ==
    /\ options.silent
    /\ pc = "done"
    /\ Len(submitted) = 2
    /\ call.op = "completeTestRun"
    /\ call.phase = "thrown"
    /\ raised = {}

\* ----------------------------------------------------------------- C12
\* C12: in non-silent mode a failed run creation makes onBegin reject, and a
\* failed batch submission, a failed completion call or a failed notification
\* trigger (it follows every completion call that returned) makes onEnd reject.
C12_NonSilentRaises ==
    ~options.silent =>
        /\ (pc \in {"running", "done"} /\ call.op = "createTestRun" /\ caught(call))
              => "onBegin" \in raised
        /\ (pc = "done" /\ call.op = "submitTestResults" /\ caught(call))
              => "onEnd" \in raised
        /\ (pc = "done" /\ call.op = "completeTestRun" /\ caught(call))
              => "onEnd" \in raised
        /\ (pc = "done" /\ call.op = "triggerNotifications"
                /\ triggerNotifications = "thrown")
              => "onEnd" \in raised

\* C12 witness: non-silent mode, the created run's completion call failed
\* after its retries and onEnd rejected
C12_Witness ==
    /\ ~options.silent
    /\ testRunId = "run-created"
    /\ pc = "done"
    /\ call.op = "completeTestRun"
    /\ call.phase = "thrown"
    /\ raised = {"onEnd"}

\* ------------------------------------------------------------- strings
\* longest string handed to the sanitizers
MaxStrLen == 4

\* A string is a sequence of characters. The characters the sanitizers and the
\* URL parser tell apart: the escape character \x1b, "[", a digit, ";", a
\* letter, a blank and ":".
Chars == {"ESC", "[", "1", ";", "m", " ", ":"}
Digits == {"1"}
Letters == {"m"}

Strings == UNION {[1..n -> Chars] : n \in 0..MaxStrLen}

\* JavaScript values
Undefined == [type |-> "undefined", str |-> <<>>, num |-> 0]
Null == [type |-> "null", str |-> <<>>, num |-> 0]
Num(n) == [type |-> "number", str |-> <<>>, num |-> n]
Str(s) == [type |-> "string", str |-> s, num |-> 0]

\* !!v
truthy(v) ==
    CASE v.type \in {"undefined", "null"} -> FALSE
      [] v.type = "string" -> Len(v.str) > 0
      [] v.type = "number" -> v.num # 0
      [] OTHER -> TRUE

\* the first position from p on whose character is not in C (Len(s) + 1 if none)
RECURSIVE RunEnd(_, _, _)
RunEnd(s, p, C) ==
    IF p <= Len(s) /\ s[p] \in C THEN RunEnd(s, p + 1, C) ELSE p

At(s, p) == IF p >= 1 /\ p <= Len(s) THEN s[p] ELSE "end"

\* The length of the match of one of stripAnsi's three patterns at position p
\* of s, 0 when it does not match there:
\*   "escape"  /\x1b\[[0-9;]*[a-zA-Z]/    "code"  /\[\d+m/    "code2"  /\[\d+;\d+m/
matchLen(pattern, s, p) ==
    CASE pattern = "escape" ->
             LET q == RunEnd(s, p + 2, Digits \cup {";"})
             IN IF At(s, p) = "ESC" /\ At(s, p + 1) = "[" /\ At(s, q) \in Letters
                THEN q - p + 1 ELSE 0
      [] pattern = "code" ->
             LET q == RunEnd(s, p + 1, Digits)
             IN IF At(s, p) = "[" /\ q > p + 1 /\ At(s, q) = "m"
                THEN q - p + 1 ELSE 0
      [] OTHER ->
             LET q == RunEnd(s, p + 1, Digits)
                 r == RunEnd(s, q + 1, Digits)
             IN IF At(s, p) = "[" /\ q > p + 1 /\ At(s, q) = ";" /\ r > q + 1
                   /\ At(s, r) = "m"
                THEN r - p + 1 ELSE 0

\* s.slice(p - 1).replace(/pattern/g, ''): the matches are taken left to right
\* and do not overlap
RECURSIVE replaceFrom(_, _, _)
replaceFrom(pattern, s, p) ==
    IF p > Len(s) THEN <<>>
    ELSE IF matchLen(pattern, s, p) > 0
         THEN replaceFrom(pattern, s, p + matchLen(pattern, s, p))
         ELSE <<s[p]>> \o replaceFrom(pattern, s, p + 1)

\* str.replace(/pattern/g, '')
replace(pattern, s) == replaceFrom(pattern, s, 1)

\* the string without the characters of C at its two ends
RECURSIVE trimOf(_, _)
trimOf(s, C) ==
    IF Len(s) = 0 THEN s
    ELSE IF s[1] \in C THEN trimOf(Tail(s), C)
    ELSE IF s[Len(s)] \in C THEN trimOf(SubSeq(s, 1, Len(s) - 1), C)
    ELSE s

\* str.trim()
trim(s) == trimOf(s, {" "})

\* stripAnsi(str), for str a string or undefined
stripAnsi(v) ==
    IF ~truthy(v) THEN v
    ELSE Str(trim(replace("code2", replace("code", replace("escape", v.str)))))

\* new URL(s) does not throw. The parser drops leading and trailing C0 controls
\* and blanks, then, there being no base URL, wants a scheme: a letter, then
\* letters and digits, then ":". With none of "/", "?", "#" among the
\* characters the rest is an opaque path, which takes every character.
URL(s) ==
    LET t == trimOf(s, {"ESC", " "})
    IN /\ At(t, 1) \in Letters
       /\ At(t, RunEnd(t, 2, Letters \cup Digits)) = ":"

\* stripAnsi(url) || ''
cleanedUrl(v) == IF truthy(stripAnsi(v)) THEN stripAnsi(v).str ELSE <<>>

\* sanitizeString(str) || ''
sanitizedOrEmpty(v) == IF truthy(stripAnsi(v)) THEN stripAnsi(v).str ELSE <<>>

\* sanitizeUrl(url): the cleaned URL, or a throw
sanitizeUrl(v) ==
    IF URL(cleanedUrl(v))
    THEN [threw |-> "none", value |-> cleanedUrl(v)]
    ELSE [threw |-> "Invalid URL format", value |-> <<>>]

\* a validation that does not look at the URL's format
validateOptionsAnyUrl(o) ==
    IF ~truthy(o) \/ o.type # "object" THEN "options must be an object"
    ELSE IF ~truthy(o.apiUrl) \/ o.apiUrl.type # "string" THEN "apiUrl is required"
    ELSE IF ~truthy(o.apiKey) \/ o.apiKey.type # "string" THEN "apiKey is required"
    ELSE IF ~truthy(o.projectId) \/ o.projectId.type # "string"
         THEN "projectId is required"
    ELSE "none"

\* validateOptions(options): the message of the error it throws, "none" if it returns
validateOptions(o) ==
    IF ~truthy(o) \/ o.type # "object" THEN "options must be an object"
    ELSE IF ~truthy(o.apiUrl) \/ o.apiUrl.type # "string" THEN "apiUrl is required"
    ELSE IF ~truthy(o.apiKey) \/ o.apiKey.type # "string" THEN "apiKey is required"
    ELSE IF ~truthy(o.projectId) \/ o.projectId.type # "string"
         THEN "projectId is required"
    ELSE sanitizeUrl(o.apiUrl).threw

\* ------------------------------------------------------- construction
\* the values a required option is given
UrlValues == {Undefined, Num(5)} \cup {Str(s) : s \in Strings}
IdValues == {Undefined, Num(5), Str(<<>>), Str(<<"m">>), Str(<<"[", "1", "m">>)}

\* what new QAStudioReporter(...) is handed: an options object, or something
\* that is no object
RawOptions ==
    [type : {"object"}, str : {<<>>}, num : {0}, apiUrl : UrlValues, apiKey : IdValues,
     projectId : IdValues, silent : {"undefined", "true", "false"}]
    \cup [type : {"undefined", "null"}, str : {<<>>}, num : {0}, apiUrl : {Undefined},
          apiKey : {Undefined}, projectId : {Undefined}, silent : {"undefined"}]
    \cup [type : {"string"}, str : {<<>>, <<"m", ":">>}, num : {0}, apiUrl : {Undefined},
          apiKey : {Undefined}, projectId : {Undefined}, silent : {"undefined"}]
    \cup [type : {"number"}, str : {<<>>}, num : {0, 5}, apiUrl : {Undefined},
          apiKey : {Undefined}, projectId : {Undefined}, silent : {"undefined"}]

\* new QAStudioReporter(options): validateOptions throws, or the options are
\* sanitized, the defaults are set and the state is created
constructor ==
    /\ pc = "unconstructed"
    /\ LET o == input.options
           threw == validateOptions(o)
       IN IF threw # "none"
          THEN /\ pc' = "rejected"
               /\ output' = [fn |-> "constructor", threw |-> threw, apiUrl |-> <<>>,
                             apiKey |-> <<>>, projectId |-> <<>>]
               /\ UNCHANGED options
          ELSE /\ pc' = "new"
               /\ output' = [fn |-> "constructor", threw |-> "none",
                             apiUrl |-> sanitizeUrl(o.apiUrl).value,
                             apiKey |-> sanitizedOrEmpty(o.apiKey),
                             projectId |-> sanitizedOrEmpty(o.projectId)]
               /\ options' = [DefaultOptions EXCEPT !.silent = (o.silent # "false")]
    /\ UNCHANGED <<clientVars, retries, input, tests, testRunId, startTime, counterVars, sendVars,
                   raised, fw>>

\* The reporter from before its construction, in a run without tests
InitConstruct ==
    /\ input \in [fn : {"constructor"}, options : RawOptions]
    /\ output = NoOutput
    /\ options = DefaultOptions
    /\ maxRetries = DefaultMaxRetries
    /\ retries = [k \in Tests2 |-> 0]
    /\ call = IdleCall
    /\ wire = NoWire
    /\ tests = <<>>
    /\ testRunId = ""
    /\ startTime = "unset"
    /\ totalTests = 0
    /\ passedTests = 0
    /\ failedTests = 0
    /\ skippedTests = 0
    /\ pc = "unconstructed"
    /\ batches = <<>>
    /\ i = 0
    /\ submitted = <<>>
    /\ completed = <<>>
    /\ raised = {}
    /\ fw = [k \in Tests2 |-> [active |-> FALSE, attempt |-> -1, status |-> "none",
                                final |-> FALSE]]

NextConstruct ==
    \/ constructor
    \/ Begin
    \/ BeginResume
    \/ End
    \/ EndResume
    \/ Sleep
    \/ \E o \in AnsweredOutcomes : Settle(o)

SpecConstruct == InitConstruct /\ [][NextConstruct]_vars

\* ----------------------------------------------------------------- C13
\* options the claim says are refused: no object, a required option missing
\* or no string, or an apiUrl that is no well-formed URL once stripped
Refused(o) ==
    \/ o.type # "object"
    \/ \E v \in {o.apiUrl, o.apiKey, o.projectId} : v.type # "string"
    \/ ~URL(cleanedUrl(o.apiUrl))

\* C13: for such options, whatever silent is, the constructor throws: the
\* reporter never leaves construction, holds no state and makes no remote call.
C13_ConstructionFails ==
    /\ Refused(input.options) =>
          /\ pc \in {"unconstructed", "rejected"}
          /\ call = IdleCall /\ wire = NoWire /\ tests = <<>> /\ testRunId = ""
          /\ raised = {}
    /\ pc = "rejected" => output.threw # "none"

\* C13 witness: silent is true, the apiUrl is a colour code and a name without
\* a scheme, and construction threw
C13_Witness ==
    /\ pc = "rejected"
    /\ input.options.silent = "true"
    /\ input.options.apiUrl = Str(<<"[", "1", "m", "m">>)
    /\ truthy(input.options.apiKey) /\ truthy(input.options.projectId)
    /\ output.threw = "Invalid URL format"

\* ------------------------------------------------------------ batchArray
\* longest list and largest batch size handed to batchArray
MaxLen == 5
MaxSize == 4

\* the lists batchArray is handed
Arrays == UNION {[1..n -> {"x", "y"}] : n \in 0..MaxLen}

\* batchArray(input.array, input.size) is called and returns
callBatchArray ==
    /\ input.fn = "batchArray"
    /\ output = NoOutput
    /\ output' = [fn |-> "batchArray", batches |-> batchArray(input.array, input.size)]
    /\ UNCHANGED <<stateVars, input>>

InitBatch ==
    /\ input \in [fn : {"batchArray"}, array : Arrays, size : 1..MaxSize]
    /\ output = NoOutput
    /\ Fresh(Tests2)
    /\ options = DefaultOptions
    /\ maxRetries = DefaultMaxRetries
    /\ retries = [k \in Tests2 |-> 0]

NextBatch == callBatchArray

SpecBatch == InitBatch /\ [][NextBatch]_vars

\* ----------------------------------------------------------------- C14
\* the batches one after the other
RECURSIVE Concat(_)
Concat(bs) == IF Len(bs) = 0 THEN <<>> ELSE Head(bs) \o Concat(Tail(bs))

\* C14: for every list and every size n >= 1 batchArray returns ceil(len/n)
\* batches, each of 1 to n elements, all but possibly the last of exactly n,
\* and the batches one after the other are the list.
C14_BatchArray ==
    output.fn = "batchArray" =>
        LET bs == output.batches
            n == input.size
            len == Len(input.array)
        IN /\ Len(bs) = (len + n - 1) \div n
           /\ \A k \in 1..Len(bs) : Len(bs[k]) >= 1 /\ Len(bs[k]) <= n
           /\ \A k \in 1..(Len(bs) - 1) : Len(bs[k]) = n
           /\ Concat(bs) = input.array
           /\ len = 0 => bs = <<>>

\* C14 witness: five elements in batches of two: two full batches and a last
\* batch of one
C14_Witness ==
    /\ output.fn = "batchArray"
    /\ input.array = <<"x", "y", "y", "x", "y">>
    /\ input.size = 2
    /\ output.batches = <<(<<"x", "y">>), (<<"y", "x">>), (<<"y">>)>>

\* ----------------------------------------------------------------- C15
\* C15 (as claimed): a key of which no attempt with index test.retries has
\* ended is in no transmitted record and not in the counters, also when that
\* attempt was begun and onEnd came before its test-end.
C15_UnendedKeyExcluded ==
    /\ \A rec \in Transmitted : fw[rec.key].final
    /\ (\A k \in DOMAIN fw : ~fw[k].final) => totalTests = 0

\* ----------------------------------------------------------------- C16
\* test k's attempt begins in this step
BeginsNow(k) == ~fw[k].active /\ fw'[k].active

\* C16: the map holds at most one entry per title-path key, an entry for
\* every key that was begun, and the entry is that of the key's most recently
\* begun attempt; a test-begin replaces the entry of its key, keeps the place
\* and the content of every other entry and adds at most its own.
C16_OneEntryPerKey ==
    /\ [](/\ \A m, n \in 1..Len(tests) : tests[m].key = tests[n].key => m = n
          /\ \A n \in 1..Len(tests) : tests[n].retry = fw[tests[n].key].attempt
          /\ \A k \in DOMAIN fw : fw[k].attempt # -1 => MapHas(tests, k))
    /\ [][\A k \in DOMAIN fw : BeginsNow(k) =>
             /\ \A n \in 1..Len(tests) : tests[n].key # k => tests'[n] = tests[n]
             /\ tests'[MapIndex(tests', k)] =
                   [key |-> k, retry |-> fw'[k].attempt, status |-> Unset, ended |-> FALSE]
             /\ Len(tests') = Len(tests) + (IF MapHas(tests, k) THEN 0 ELSE 1)]_vars

\* C16 witness: key a ended its last attempt and was begun again after key b
\* was begun: still two entries, a's in its first place and not ended
C16_Witness ==
    /\ Len(tests) = 2
    /\ fw["a"].final /\ fw["a"].active
    /\ tests[1] = [key |-> "a", retry |-> retries["a"], status |-> Unset, ended |-> FALSE]
    /\ tests[2].key = "b" /\ tests[2].ended

\* ----------------------------------------------------------------- C17
\* the records selected for transmission at run end, in order
Selected == Concat(batches)

\* how many of them have a status in S
InBucket(S) == Cardinality({n \in 1..Len(Selected) : Selected[n].status \in S})

\* C17 (as claimed): the summary of the completion call is that of the
\* records selected at run end: total is their number and passed, failed and
\* skipped are the numbers of them in each bucket, for every callback sequence.
C17_SummaryFromRecords ==
    completed # <<>> =>
        /\ completed[1].total = Len(Selected)
        /\ completed[1].passed = InBucket({"passed"})
        /\ completed[1].failed = InBucket({"failed", "timedOut"})
        /\ completed[1].skipped = InBucket({"skipped"})

\* ----------------------------------------------------------------- C18
\* C18: with attempts of different tests in flight at once, every test-end is
\* one step that does its lookup and all its updates: the key's entry then
\* carries the ended attempt's index and status together, no other entry
\* changes, and a terminal test-end adds exactly one to total and one to the
\* bucket of its status (no increment is lost); a test-begin is one step
\* that changes no counter.
C18_AtomicCallbacks ==
    [][\A k \in DOMAIN fw :
          /\ BeginsNow(k) => UNCHANGED counterVars
          /\ EndsNow(k) =>
                \E s \in Statuses :
                    /\ Len(tests') = Len(tests)
                    /\ \A n \in 1..Len(tests) :
                          tests'[n] = IF tests[n].key = k
                                      THEN [key |-> k, retry |-> fw[k].attempt,
                                            status |-> s, ended |-> TRUE]
                                      ELSE tests[n]
                    /\ LET one == IF fw[k].attempt = retries[k] THEN 1 ELSE 0
                           in(S) == IF s \in S THEN one ELSE 0
                       IN /\ totalTests' = totalTests + one
                          /\ passedTests' = passedTests + in({"passed"})
                          /\ failedTests' = failedTests + in({"failed", "timedOut"})
                          /\ skippedTests' = skippedTests + in({"skipped", "interrupted"})]_vars

\* C18 witness: test a, which has one attempt, was begun first and is still
\* running; test b began and ended its last attempt meanwhile and was counted
C18_Witness ==
    /\ retries["a"] = 0
    /\ fw["a"].active /\ ~fw["a"].final
    /\ fw["b"].final /\ ~fw["b"].active
    /\ Len(tests) = 2
    /\ tests[1].key = "a" /\ ~tests[1].ended
    /\ tests[2].key = "b" /\ tests[2].ended
    /\ totalTests = 1

\* ----------------------------------------------------------------- C19
\* C19: when a submit call returns an answer that lists per-result errors,
\* the step that resumes sendTestResults raises nothing, in non-silent mode
\* too, and goes on as after a clean answer: it submits the next batch, or
\* after the last batch enters the completion call.
C19_PartialErrorsNotFailure ==
    [][(pc = "sendTestResults" /\ call.phase = "returned" /\ call.value.errors) =>
          /\ raised' = raised
          /\ IF Len(submitted) < Len(batches)
             THEN /\ submitted' = Append(submitted, batches[Len(submitted) + 1])
                  /\ pc' = "sendTestResults"
                  /\ completed' = completed
             ELSE /\ submitted' = submitted
                  /\ pc' = "completeTestRun"
                  /\ Len(completed') = Len(completed) + 1]_vars

\* C19 witness: non-silent mode, the second of two batches was answered with
\* per-result errors, and nothing was raised so far
C19_Witness ==
    /\ ~options.silent
    /\ Len(batches) = 2
    /\ Len(submitted) = 2
    /\ pc = "sendTestResults"
    /\ call.phase = "returned"
    /\ call.value.errors
    /\ raised = {}

\* ----------------------------------------------------------- attachments
\* most attachments of one test result
MaxAttachments == 2

\* An attachment name is a sequence of words, a content type is a type and a
\* subtype (type/subtype)
NameWords == {"Screenshot", "video", "trace", "log"}
Names == UNION {[1..n -> NameWords] : n \in 1..2}
ContentTypes == {<<"image", "png">>, <<"video", "webm">>, <<"text", "plain">>}

\* TestResult.attachments
Attachments == [name : Names, contentType : ContentTypes]
AttachmentLists == UNION {[1..n -> Attachments] : n \in 0..MaxAttachments}

\* word.toLowerCase()
toLowerCase(word) == IF word = "Screenshot" THEN "screenshot" ELSE word

\* name.toLowerCase().includes(word)
includes(name, word) == \E n \in 1..Len(name) : toLowerCase(name[n]) = word

\* contentType.startsWith(type + '/')
startsWith(contentType, type) == contentType[1] = type

\* determineAttachmentType(name, contentType)
determineAttachmentType(name, contentType) ==
    IF startsWith(contentType, "image") \/ includes(name, "screenshot") THEN "screenshot"
    ELSE IF startsWith(contentType, "video") \/ includes(name, "video") THEN "video"
    ELSE IF includes(name, "trace") THEN "trace"
    ELSE "other"

\* extractAttachments(result)
extractAttachments(attachments) ==
    [n \in 1..Len(attachments) |->
        [name |-> attachments[n].name, contentType |-> attachments[n].contentType,
         type |-> determineAttachmentType(attachments[n].name, attachments[n].contentType)]]

\* a filter that lets every attachment through
keepAll(att, uploadScreenshots, uploadVideos) == TRUE

\* sendTestResults: the callback of qaResult.attachments.filter
keep(att, uploadScreenshots, uploadVideos) ==
    IF att.type = "screenshot" /\ ~uploadScreenshots THEN FALSE
    ELSE IF att.type = "video" /\ ~uploadVideos THEN FALSE
    ELSE TRUE

\* sendTestResults: the attachments of the record sent for a final result
recordAttachments(attachments, uploadScreenshots, uploadVideos) ==
    LET kept(att) == keep(att, uploadScreenshots, uploadVideos)
    IN SelectSeq(extractAttachments(attachments), kept)

\* sendTestResults converts a final result and filters its attachments
callRecordAttachments ==
    /\ input.fn = "recordAttachments"
    /\ output = NoOutput
    /\ output' = [fn |-> "recordAttachments",
                  attachments |-> recordAttachments(input.attachments,
                                      input.uploadScreenshots, input.uploadVideos)]
    /\ UNCHANGED <<stateVars, input>>

InitAttach ==
    /\ input \in [fn : {"recordAttachments"}, attachments : AttachmentLists,
                  uploadScreenshots : BOOLEAN, uploadVideos : BOOLEAN]
    /\ output = NoOutput
    /\ Fresh(Tests2)
    /\ options = DefaultOptions
    /\ maxRetries = DefaultMaxRetries
    /\ retries = [k \in Tests2 |-> 0]

NextAttach == callRecordAttachments

SpecAttach == InitAttach /\ [][NextAttach]_vars

\* ----------------------------------------------------------------- C20
\* the attachments of a list whose kind is in K, in order
OfKind(atts, K) ==
    LET in(att) == att.type \in K
    IN SelectSeq(atts, in)

\* C20: with uploadScreenshots false the record holds no attachment
\* classified screenshot, with uploadVideos false none classified video;
\* those classified trace or other are all kept, in order; an enabled kind is
\* kept whole, so with both flags true the record holds every attachment in
\* its original order.
C20_AttachmentFilter ==
    output.fn = "recordAttachments" =>
        LET all == extractAttachments(input.attachments)
            sent == output.attachments
        IN /\ ~input.uploadScreenshots => OfKind(sent, {"screenshot"}) = <<>>
           /\ ~input.uploadVideos => OfKind(sent, {"video"}) = <<>>
           /\ OfKind(sent, {"trace", "other"}) = OfKind(all, {"trace", "other"})
           /\ input.uploadScreenshots =>
                 OfKind(sent, {"screenshot"}) = OfKind(all, {"screenshot"})
           /\ input.uploadVideos => OfKind(sent, {"video"}) = OfKind(all, {"video"})
           /\ (input.uploadScreenshots /\ input.uploadVideos) => sent = all

\* C20 witness: screenshots off, videos on: of a screenshot and a trace only
\* the trace is in the record
C20_Witness ==
    /\ output.fn = "recordAttachments"
    /\ ~input.uploadScreenshots /\ input.uploadVideos
    /\ input.attachments = <<[name |-> <<"log">>, contentType |-> <<"image", "png">>],
                             [name |-> <<"trace">>, contentType |-> <<"text", "plain">>]>>
    /\ output.attachments = <<[name |-> <<"trace">>, contentType |-> <<"text", "plain">>,
                               type |-> "trace"]>>

\* ----------------------------------------------------------------- C21
\* the status mapping as the claim tabulates it
Mapped(s) ==
    IF s \in {"passed", "failed", "timedOut"} THEN s
    ELSE IF s \in {"skipped", "interrupted"} THEN "skipped"
    ELSE "failed"

\* C21: mapTestStatus maps passed, failed and timedOut to themselves, skipped
\* and interrupted to skipped and every other status to failed, so a
\* transmitted record carries the mapped status of its entry, one of four.
C21_StatusMapping ==
    /\ \A s \in Statuses \cup {Unset, "flaky", ""} : mapTestStatus(s) = Mapped(s)
    /\ \A rec \in Transmitted :
          /\ rec.status \in {"passed", "failed", "timedOut", "skipped"}
          /\ \E n \in 1..Len(tests) :
                tests[n].key = rec.key /\ rec.status = Mapped(tests[n].status)

\* C21 witness: an interrupted attempt was transmitted as skipped and one
\* whose status is none of the five as failed
C21_Witness ==
    /\ pc = "done"
    /\ Len(tests) = 2
    /\ tests[1].status = "interrupted" /\ tests[2].status = Unset
    /\ Transmitted = {[key |-> tests[1].key, status |-> "skipped", retry |-> tests[1].retry],
                      [key |-> tests[2].key, status |-> "failed", retry |-> tests[2].retry]}

\* ----------------------------------------------------------------- C22
\* the kind of an artifact as the claim decides it: by content type first,
\* by name only when neither prefix matches
Kind(name, contentType) ==
    IF startsWith(contentType, "image") THEN "screenshot"
    ELSE IF startsWith(contentType, "video") THEN "video"
    ELSE IF includes(name, "screenshot") THEN "screenshot"
    ELSE IF includes(name, "video") THEN "video"
    ELSE IF includes(name, "trace") THEN "trace"
    ELSE "other"

\* C22 (as claimed): every attachment of a record is classified by its
\* content type first (image/ is a screenshot, video/ is a video, whatever
\* the name), and by its name only as a fallback.
C22_ContentTypeFirst ==
    output.fn = "recordAttachments" =>
        \A n \in 1..Len(output.attachments) :
            output.attachments[n].type =
                Kind(output.attachments[n].name, output.attachments[n].contentType)

\* ------------------------------------------------------ test case identity
\* longest test title and most annotations of a test
MaxTitleLen == 5
MaxAnnotations == 2

\* the characters of a title the pattern of extractTestCaseId tells apart: the
\* brackets, an upper-case and a lower-case letter, the hyphen and a digit
TitleChars == {"[", "Q", "q", "-", "1", "]"}
Upper == {"Q"}
Titles == UNION {[1..n -> TitleChars] : n \in 0..MaxTitleLen}

\* TestCase.annotations: a type and a description ("" also stands for none)
Annotations == [type : {"testCaseId", "tag"}, description : {<<>>, <<"Q", "-", "9">>}]
AnnotationLists == UNION {[1..n -> Annotations] : n \in 0..MaxAnnotations}

\* no identity: undefined
NoId == [found |-> FALSE, id |-> <<>>]

\* test.annotations.find((a) => a.type === 'testCaseId'): the index of the
\* first such annotation, 0 if there is none
find(annotations) ==
    LET S == {n \in 1..Len(annotations) : annotations[n].type = "testCaseId"}
    IN IF S = {} THEN 0 ELSE CHOOSE n \in S : \A m \in S : n <= m

\* test.title.match(/^\[([A-Z]+-\d+)\]/): the group, if the title matches
match(title) ==
    LET q == RunEnd(title, 2, Upper)
        r == RunEnd(title, q + 1, Digits)
    IN IF At(title, 1) = "[" /\ q > 2 /\ At(title, q) = "-" /\ r > q + 1
          /\ At(title, r) = "]"
       THEN [found |-> TRUE, id |-> SubSeq(title, 2, r - 1)]
       ELSE NoId

\* extractTestCaseId(test)
extractTestCaseId(title, annotations) ==
    LET n == find(annotations)
    IN IF n # 0 /\ annotations[n].description # <<>>
       THEN [found |-> TRUE, id |-> annotations[n].description]
       ELSE match(title)

\* extractTestCaseId(test) is called and returns
callExtractTestCaseId ==
    /\ input.fn = "extractTestCaseId"
    /\ output = NoOutput
    /\ output' = [fn |-> "extractTestCaseId",
                  testCaseId |-> extractTestCaseId(input.title, input.annotations)]
    /\ UNCHANGED <<stateVars, input>>

InitId ==
    /\ input \in [fn : {"extractTestCaseId"}, title : Titles, annotations : AnnotationLists]
    /\ output = NoOutput
    /\ Fresh(Tests2)
    /\ options = DefaultOptions
    /\ maxRetries = DefaultMaxRetries
    /\ retries = [k \in Tests2 |-> 0]

NextId == callExtractTestCaseId

SpecId == InitId /\ [][NextId]_vars

\* ----------------------------------------------------------------- C23
\* the non-empty descriptions of a test's testCaseId annotations
Described(annotations) ==
    {annotations[n].description : n \in
        {m \in 1..Len(annotations) : /\ annotations[m].type = "testCaseId"
                                     /\ annotations[m].description # <<>>}}

\* C23 (as claimed): a test with a testCaseId annotation that has a non-empty
\* description gets that description, whatever its title; otherwise the token
\* of a leading [PREFIX-123] bracket of the title; otherwise no identity.
C23_AnnotationPreferred ==
    output.fn = "extractTestCaseId" =>
        IF Described(input.annotations) # {}
        THEN /\ output.testCaseId.found
             /\ output.testCaseId.id \in Described(input.annotations)
        ELSE output.testCaseId = match(input.title)

\* -------------------------------------------------------------- stripAnsi
\* longest string handed to stripAnsi on its own
MaxStripLen == 6

StripInputs ==
    {Undefined} \cup {Str(s) : s \in UNION {[1..n -> Chars] : n \in 0..MaxStripLen}}

\* stripAnsi(input.str) is called and returns
callStripAnsi ==
    /\ input.fn = "stripAnsi"
    /\ output = NoOutput
    /\ output' = [fn |-> "stripAnsi", value |-> stripAnsi(input.str)]
    /\ UNCHANGED <<stateVars, input>>

InitStrip ==
    /\ input \in [fn : {"stripAnsi"}, str : StripInputs]
    /\ output = NoOutput
    /\ Fresh(Tests2)
    /\ options = DefaultOptions
    /\ maxRetries = DefaultMaxRetries
    /\ retries = [k \in Tests2 |-> 0]

NextStrip == callStripAnsi

SpecStrip == InitStrip /\ [][NextStrip]_vars

\* ----------------------------------------------------------------- C24
\* the string holds one of the codes stripAnsi removes
HasCode(s) ==
    \E p \in 1..Len(s) : \E pattern \in {"escape", "code", "code2"} :
        matchLen(pattern, s, p) > 0

\* C24 (as claimed): the output of stripAnsi holds none of the codes it
\* removes, stripAnsi applied to its output changes nothing, and a string
\* without codes comes back unchanged but for the blanks trimmed at its ends.
C24_StripAnsiIdempotent ==
    output.fn = "stripAnsi" =>
        /\ ~HasCode(output.value.str)
        /\ stripAnsi(output.value) = output.value
        /\ ~HasCode(input.str.str) => output.value.str = trim(input.str.str)

\* ----------------------------------------------------------------- C25
\* C25 (as claimed): whenever construction succeeds, the apiKey and the
\* projectId the reporter goes on with, stripped and trimmed, are non-empty
\* and the apiUrl is a well-formed URL.
C25_FailsClosed ==
    (pc \notin {"unconstructed", "rejected"}) =>
        /\ output.apiKey # <<>>
        /\ output.projectId # <<>>
        /\ URL(output.apiUrl)

\* ----------------------------------------------------------------- C26
\* onBegin's creation call failed and onBegin has resumed from it
CreationFailed == call.op = "createTestRun" /\ caught(call) /\ pc # "onBegin"

\* the step is a test callback of key k with its full effect on the map and
\* the counters
Processed(k) ==
    /\ BeginsNow(k) =>
          /\ UNCHANGED counterVars
          /\ MapHas(tests', k)
          /\ tests'[MapIndex(tests', k)] =
                [key |-> k, retry |-> fw'[k].attempt, status |-> Unset, ended |-> FALSE]
    /\ EndsNow(k) =>
          \E s \in Statuses :
              /\ tests'[MapIndex(tests, k)] =
                    [key |-> k, retry |-> fw[k].attempt, status |-> s, ended |-> TRUE]
              /\ LET one == IF fw[k].attempt = retries[k] THEN 1 ELSE 0
                 IN /\ totalTests' = totalTests + one
                    /\ passedTests' = passedTests + (IF s = "passed" THEN one ELSE 0)
                    /\ failedTests' = failedTests + (IF s = "failed" THEN one ELSE 0)

\* C26: onBegin sets the start time before its create-or-adopt attempt, so it
\* is set from then on whatever the attempt's outcome; and after a creation
\* that failed in silent mode nothing is raised, the run goes on, and every
\* test-begin and test-end has its full effect on the map and the counters.
C26_StartTimeThenRunning ==
    /\ [](pc # "new" => startTime = "set")
    /\ []((options.silent /\ CreationFailed) =>
             /\ raised = {}
             /\ testRunId = ""
             /\ pc \in {"running", "done"})
    /\ [][(options.silent /\ CreationFailed /\ pc = "running") =>
             \A k \in DOMAIN fw : Processed(k)]_vars

\* C26 witness: silent mode, the creation failed, and two tests were begun,
\* ended and counted afterwards
C26_Witness ==
    /\ options.silent
    /\ CreationFailed
    /\ startTime = "set"
    /\ pc = "running"
    /\ Len(tests) = 2
    /\ totalTests = 2
    /\ passedTests = 1 /\ failedTests = 1

\* ----------------------------------------------------------------- C27
\* a create-run call is issued in this step
CreateEntered == call.op # "createTestRun" /\ call'.op = "createTestRun"

\* C27: onBegin issues a create-run call exactly when createTestRun is set
\* and no testRunId was supplied, and no other step issues one, so there is at
\* most one per run; otherwise onBegin adopts options.testRunId without a
\* remote call; when the creation returns, the identifier of its answer becomes
\* the run identifier, which no later step changes and with which every
\* submit and completion call is made.
C27_CreateOrAdopt ==
    /\ [][/\ CreateEntered => pc = "new"
          /\ pc # "new" => pc' # "new"
          /\ (pc = "new" /\ pc' # "new") =>
                IF options.createTestRun /\ options.testRunId = ""
                THEN CreateEntered /\ pc' = "onBegin" /\ testRunId' = ""
                ELSE /\ UNCHANGED <<call, wire>>
                     /\ testRunId' = options.testRunId
                     /\ pc' = "running"
          /\ (pc = "onBegin" /\ pc' # "onBegin" /\ call.phase = "returned") =>
                testRunId' = call.value.id /\ call.value.id # ""
          /\ pc \notin {"new", "onBegin"} => testRunId' = testRunId
          /\ (Len(submitted') > Len(submitted) \/ Len(completed') > Len(completed)) =>
                testRunId' # "" /\ testRunId' = testRunId]_vars
    /\ [](options.testRunId # "" =>
             /\ pc # "onBegin"
             /\ pc # "new" => testRunId = options.testRunId)

\* C27 witness: the run was created by onBegin's creation call, and
\* two batches and the completion call were made with its identifier
C27_Witness ==
    /\ options.createTestRun /\ options.testRunId = ""
    /\ testRunId = "run-created"
    /\ pc = "done"
    /\ Len(submitted) = 2
    /\ Len(completed) = 1

\* C27, adoption: createTestRun is set and a testRunId was supplied: the run
\* was adopted and completed without a creation call
C27_WitnessAdopted ==
    /\ options.createTestRun /\ options.testRunId = "run-option"
    /\ testRunId = "run-option"
    /\ pc = "done"
    /\ Len(completed) = 1

\* ------------------------------------------------------- stray test-end
\* The host delivers a test-end for a key that no test-begin was delivered
\* for; output records the callback's arguments
HostStrayTestEnd(k, r, s) ==
    /\ pc = "running"
    /\ ~MapHas(tests, k)
    /\ onTestEnd(k, r, s)
    /\ output' = [fn |-> "onTestEnd", key |-> k, retry |-> r, status |-> s]
    /\ UNCHANGED <<clientVars, configVars, input, testRunId, startTime, pc, sendVars,
                   raised, fw>>

\* The aggregator with stray test-ends among the callbacks of a run
InitStray == InitAgg

NextStray ==
    \/ Begin
    \/ \E k \in DOMAIN retries : \E r \in 0..retries[k] : HostTestBegin(k, r)
    \/ \E k \in DOMAIN retries : \E s \in {"passed", "failed"} : HostTestEnd(k, s)
    \/ \E k \in DOMAIN retries : \E r \in 0..retries[k] : \E s \in Statuses :
          HostStrayTestEnd(k, r, s)

SpecStray == InitStray /\ [][NextStray]_vars

\* ----------------------------------------------------------------- C28
\* C28: a test-end for a key without an entry raises nothing, makes no entry
\* and leaves the map and the four counters as they were, also when its
\* attempt index is test.retries.
C28_StrayTestEndNoOp ==
    [][output' # output =>
          /\ output'.fn = "onTestEnd"
          /\ ~MapHas(tests, output'.key)
          /\ UNCHANGED <<tests, counterVars, raised, pc>>]_vars

\* C28 witness: after the other test was counted, a passed test-end with the
\* terminal attempt index came for a key without an entry: still one entry
\* and one counted test
C28_Witness ==
    /\ output.fn = "onTestEnd"
    /\ output.retry = retries[output.key]
    /\ output.status = "passed"
    /\ ~MapHas(tests, output.key)
    /\ Len(tests) = 1
    /\ totalTests = 1
    /\ raised = {}

\* ----------------------------------------------------------------- C29
\* the three bucket counters, in the order passed, failed, skipped
Buckets == <<passedTests, failedTests, skippedTests>>

\* C29: a test-end of an attempt with index test.retries, for a key that has
\* an entry, adds one to totalTests and to exactly one of passedTests,
\* failedTests and skippedTests, whatever status the result carries; and in
\* every reachable state totalTests = passedTests + failedTests + skippedTests.
C29_OneBucketWithTotal ==
    /\ [](totalTests = passedTests + failedTests + skippedTests)
    /\ [][\A k \in DOMAIN fw :
             (EndsNow(k) /\ MapHas(tests, k) /\ fw[k].attempt = retries[k]) =>
                 /\ totalTests' = totalTests + 1
                 /\ \E j \in 1..3 : \A n \in 1..3 :
                       Buckets'[n] = Buckets[n] + (IF n = j THEN 1 ELSE 0)]_vars

\* C29 witness: three terminal test-ends were counted, one in each bucket,
\* the failed one for a timedOut result and the skipped one for an
\* interrupted result
C29_Witness ==
    /\ totalTests = 3
    /\ Buckets = <<1, 1, 1>>
    /\ \E n \in 1..Len(tests) : tests[n].ended /\ tests[n].status = "timedOut"
    /\ \E n \in 1..Len(tests) : tests[n].ended /\ tests[n].status = "interrupted"

\* --------------------------------------------- callbacks after suite-end
\* onEnd has started and is suspended on a remote call
Finalizing == pc \in {"sendTestResults", "completeTestRun"}

\* The host calls onEnd when no attempt is running; output records the map
\* and the counters as they stand at that call
SignalEnd ==
    /\ \A k \in DOMAIN fw : ~fw[k].active
    /\ output' = [fn |-> "onEnd", tests |-> tests, summary |-> summary]
    /\ onEnd
    /\ UNCHANGED <<maxRetries, configVars, fw, input>>

\* The host delivers a test-begin while onEnd is suspended
LateTestBegin(k) ==
    /\ Finalizing
    /\ totalTests < MaxCounted
    /\ ~fw[k].active
    /\ onTestBegin(k, retries[k])
    /\ fw' = [fw EXCEPT ![k].active = TRUE, ![k].attempt = retries[k]]
    /\ UNCHANGED <<clientVars, configVars, pureVars, testRunId, startTime, pc,
                   sendVars, raised>>

\* The host delivers the test-end of a running attempt while onEnd is suspended
LateTestEnd(k, s) ==
    /\ Finalizing
    /\ fw[k].active
    /\ onTestEnd(k, fw[k].attempt, s)
    /\ fw' = [fw EXCEPT ![k].active = FALSE, ![k].status = s,
                        ![k].final = @ \/ fw[k].attempt = retries[k]]
    /\ UNCHANGED <<clientVars, configVars, pureVars, testRunId, startTime, pc,
                   sendVars, raised>>

\* A run of tests without retries, in silent mode with an adopted run, whose
\* host goes on delivering test callbacks after it has called onEnd
InitLate ==
    /\ options \in {o \in AllOptions : o.testRunId # "" /\ o.createTestRun /\ o.silent
                                       /\ o.batchSize \in {1, DefaultBatchSize}}
    /\ maxRetries = 1
    /\ retries = [k \in Tests2 |-> 0]
    /\ Constructed(Tests2)

NextLate ==
    \/ Begin
    \/ \E k \in DOMAIN retries : PlaywrightTestBegin(k)
    \/ \E k \in DOMAIN retries : \E s \in {"passed", "failed"} : PlaywrightTestEnd(k, s)
    \/ SignalEnd
    \/ SendResume
    \/ EndResume
    \/ \E o \in AnsweredOutcomes : Settle(o)
    \/ \E k \in DOMAIN retries : LateTestBegin(k)
    \/ \E k \in DOMAIN retries : \E s \in {"passed", "failed"} : LateTestEnd(k, s)

SpecLate == InitLate /\ [][NextLate]_vars

\* ----------------------------------------------------------------- C30
\* C30 (as claimed): from the call of onEnd on, the map and the counters stay
\* as they stood at that call, whatever test callbacks are delivered while
\* onEnd is suspended, and the summary handed to completeTestRun is made of
\* the counters of that moment.
C30_ImmutableAfterEnd ==
    output # NoOutput =>
        /\ tests = output.tests
        /\ summary = output.summary
        /\ \A n \in 1..Len(completed) : completed[n] = output.summary

\* ------------------------------------------------ finalization to its end
\* batchSize is not validated: the values a configuration may give it
AnyBatchSizes == {-1, 0, 1, DefaultBatchSize}

AnyOptions ==
    [silent : BOOLEAN, createTestRun : BOOLEAN, testRunId : {"", "run-option"},
     batchSize : AnyBatchSizes]

\* A Playwright run of two tests without retries, under every configuration
\* the constructor accepts
InitFinish ==
    /\ options \in AnyOptions
    /\ maxRetries \in 0..2
    /\ retries = [k \in Tests2 |-> 0]
    /\ Constructed(Tests2)

NextFinish ==
    \/ Begin
    \/ BeginResume
    \/ \E k \in DOMAIN retries : PlaywrightTestBegin(k)
    \/ \E k \in DOMAIN retries : \E s \in {"passed", "failed"} : PlaywrightTestEnd(k, s)
    \/ PlaywrightEnd
    \/ SendResume
    \/ EndResume
    \/ Sleep
    \/ \E o \in CoreOutcomes : Settle(o)

\* Every HTTP attempt is answered, fails or times out, every backoff timer
\* fires, and the code awaiting a settled call resumes
Scheduling ==
    /\ WF_vars(BeginResume)
    /\ WF_vars(SendResume)
    /\ WF_vars(EndResume)
    /\ WF_vars(Sleep)
    /\ WF_vars(\E o \in CoreOutcomes : Settle(o))

SpecFinish == InitFinish /\ [][NextFinish]_vars /\ Scheduling

\* ----------------------------------------------------------------- C31
\* C31: in silent mode, once the submit call of a batch has failed (on a 4xx,
\* or with its attempts used up), sendTestResults goes on: the batches after
\* it are submitted next and in order, and afterwards the completion call is
\* made.
C31_SilentFailureGoesOn ==
    /\ [][(/\ options.silent
           /\ pc = "sendTestResults"
           /\ call.phase = "thrown"
           /\ pc' # pc \/ call' # call) =>
              IF i + 1 < Len(batches)
              THEN /\ pc' = "sendTestResults"
                   /\ submitted' = Append(submitted, batches[i + 2])
                   /\ completed' = completed
              ELSE /\ pc' = "completeTestRun"
                   /\ submitted' = submitted
                   /\ completed' = Append(completed, summary)]_vars
    /\ \A n \in 0..1 :
          (options.silent /\ pc = "sendTestResults" /\ call.phase = "thrown" /\ i = n)
              ~> (/\ Len(submitted) = Len(batches)
                  /\ \A m \in 1..Len(batches) : submitted[m] = batches[m]
                  /\ Len(completed) = 1)

\* C31 witness: silent mode, the submit call of the first of two batches has
\* failed after its two attempts, and sendTestResults is about to resume
C31_Witness ==
    /\ options.silent
    /\ pc = "sendTestResults"
    /\ Len(batches) = 2
    /\ i = 0
    /\ maxRetries = 2
    /\ call.phase = "thrown"
    /\ wire.attempts = 2

\* ----------------------------------------------------------------- C32
\* the title-path keys of the records of a batch
KeysOf(batch) == {batch[n].key : n \in 1..Len(batch)}

\* C32: in one run no batch is handed to submitTestResults twice and no
\* record is handed over in two submissions, whether the call returned,
\* returned with per-result errors or failed; the HTTP attempts of the one
\* call that carries a batch are at most maxRetries.
C32_NoResubmission ==
    /\ Len(submitted) <= Len(batches)
    /\ \A m, n \in 1..Len(submitted) :
          m # n => /\ submitted[m] # submitted[n]
                   /\ KeysOf(submitted[m]) \cap KeysOf(submitted[n]) = {}
    /\ call.op = "submitTestResults" =>
          /\ wire.attempts <= maxRetries
          /\ Len(submitted) = i + 1

\* C32 witness: silent mode, the call for the second and last batch has
\* failed after its two attempts; each batch was handed over once
C32_Witness ==
    /\ options.silent
    /\ pc = "sendTestResults"
    /\ Len(batches) = 2
    /\ Len(submitted) = 2
    /\ call.phase = "thrown"
    /\ maxRetries = 2
    /\ wire.attempts = 2

\* ----------------------------------------------------------------- C33
\* C33: the completion call is entered only in a step in which the call of
\* the last batch has returned or thrown (or at once when there is no batch),
\* with every batch submitted before it; the notification trigger is
\* evaluated only in the step that resumes from a completion call that
\* returned, never after one that failed, and nothing is submitted or
\* completed after it.
C33_FinalizationOrder ==
    /\ [][/\ Len(completed') > Len(completed) =>
               /\ Len(submitted') = Len(batches')
               /\ submitted' = submitted
               /\ Len(batches') > 0 =>
                     /\ call.op = "submitTestResults"
                     /\ call.phase \in {"returned", "thrown"}
                     /\ i + 1 = Len(batches)
          /\ Len(submitted') > Len(submitted) => completed = <<>>
          /\ (call'.op = "triggerNotifications" /\ call.op # "triggerNotifications") =>
               /\ call.op = "completeTestRun"
               /\ call.phase = "returned"
               /\ Len(completed) = 1
          /\ (call.op = "completeTestRun" /\ call.phase = "thrown") => call' = call
          /\ call.op = "triggerNotifications" =>
               UNCHANGED <<call, wire, submitted, completed>>]_vars
    /\ [](call.op = "completeTestRun" => Len(completed) = 1)

\* C33 witness: two batches were submitted, the completion call returned and
\* the notification trigger was evaluated after it
C33_Witness ==
    /\ pc = "done"
    /\ Len(batches) = 2
    /\ Len(submitted) = 2
    /\ Len(completed) = 1
    /\ call.op = "triggerNotifications"

\* C33 witness of the other case: the completion call failed and no trigger
\* followed
C33_WitnessFailed ==
    /\ pc = "done"
    /\ Len(submitted) = 2
    /\ call.op = "completeTestRun"
    /\ call.phase = "thrown"

\* ----------------------------------------------------------------- C34
\* C34: when testRunId is unset at the call of onEnd, the step of onEnd ends
\* onEnd at once: it enters no remote call, sends no HTTP attempt, submits no
\* batch, completes nothing, evaluates no trigger and raises nothing; and
\* that stays so afterwards.
C34_NoRunIdNoCalls ==
    /\ [][(pc = "running" /\ pc' # "running" /\ testRunId = "") =>
             /\ pc' = "done"
             /\ UNCHANGED <<call, wire, batches, submitted, completed, raised,
                            testRunId>>]_vars
    /\ []((pc = "done" /\ testRunId = "") =>
             /\ submitted = <<>>
             /\ completed = <<>>
             /\ "onEnd" \notin raised
             /\ call.op \in {"none", "createTestRun"})

\* C34 witness: silent mode, the creation of the run failed, two tests were
\* counted, and onEnd is over without a submission or a completion call
C34_Witness ==
    /\ options.silent
    /\ pc = "done"
    /\ testRunId = ""
    /\ call.op = "createTestRun"
    /\ call.phase = "thrown"
    /\ totalTests = 2
    /\ Len(tests) = 2
    /\ submitted = <<>>
    /\ completed = <<>>
    /\ raised = {}

\* C34 witness of the other case: createTestRun is false and no testRunId was
\* given; no remote call was made in the whole run
C34_WitnessNoCreate ==
    /\ ~options.createTestRun
    /\ options.testRunId = ""
    /\ pc = "done"
    /\ call = IdleCall
    /\ totalTests = 2
    /\ submitted = <<>>
    /\ completed = <<>>

\* ------------------------------------------ one logical call, run to its end
\* the longest sequence of per-attempt outcomes, and the largest maxRetries
MaxOutcomes == 4

\* one outcome of each kind: success, empty 2xx body, unparsable 2xx body,
\* 4xx, other status, connection error, timeout
PolicyOutcomes ==
    {o \in Outcomes : /\ ~o.errors
                      /\ ~o.processed \/ o.kind = "response"
                      /\ o.status \in {0, 200, 404, 500}
                      /\ o.kind = "response" => o.status # 0}

OutcomeSeqs == UNION {[1..n -> PolicyOutcomes] : n \in 0..MaxOutcomes}

\* the frame and the wire once await this.sleep(...) has resumed, if the
\* call was sleeping
slept(st) ==
    IF st.call.phase = "sleeping"
    THEN [call |-> [st.call EXCEPT !.phase = "inflight"],
          wire |-> [st.wire EXCEPT !.attempts = @ + 1]]
    ELSE st

\* request: the attempt in flight settles with outcome o
requestAfter(st, o) ==
    LET r == makeRequest(o, st.call.attempt)
    IN IF r.ok
       THEN [call |-> [st.call EXCEPT !.phase = "returned", !.value = r.value],
             wire |-> observe(st.wire, o)]
       ELSE requestCatch(st.call, r.error, observe(st.wire, o))

\* uploadMultipart: the attempt in flight settles with outcome o
uploadMultipartAfter(st, o) ==
    LET r == makeMultipartRequest(o, st.call.attempt)
    IN IF r.ok
       THEN [call |-> [st.call EXCEPT !.phase = "returned", !.value = r.value],
             wire |-> observe(st.wire, o)]
       ELSE uploadMultipartCatch(st.call, r.error, observe(st.wire, o))

\* request, driven by the outcomes os of its attempts, as far as they reach
RECURSIVE requestRun(_, _)
requestRun(st, os) ==
    IF os = <<>> \/ settled(st.call) THEN st
    ELSE requestRun(requestAfter(slept(st), Head(os)), Tail(os))

\* uploadMultipart, driven by the outcomes os of its attempts
RECURSIVE uploadMultipartRun(_, _)
uploadMultipartRun(st, os) ==
    IF os = <<>> \/ settled(st.call) THEN st
    ELSE uploadMultipartRun(uploadMultipartAfter(slept(st), Head(os)), Tail(os))

\* one JSON call and one multipart call meet the same outcomes
callBoth ==
    /\ input.fn = "request"
    /\ output = NoOutput
    /\ output' = [fn |-> "request",
                  json |-> requestRun(request("completeTestRun"), input.outcomes),
                  multipart |-> uploadMultipartRun(uploadMultipart("uploadAttachment"),
                                                   input.outcomes)]
    /\ UNCHANGED <<stateVars, input>>

InitPolicy ==
    /\ input \in [fn : {"request"}, outcomes : OutcomeSeqs]
    /\ output = NoOutput
    /\ maxRetries \in (-1)..MaxOutcomes
    /\ options = DefaultOptions
    /\ retries = [k \in Tests2 |-> 0]
    /\ Fresh(Tests2)

NextPolicy == callBoth

SpecPolicy == InitPolicy /\ [][NextPolicy]_vars

\* ----------------------------------------------------------------- C35
\* a call's outcome without the name of its operation
Anonymous(st) == [call |-> [st.call EXCEPT !.op = "any"], wire |-> st.wire]

\* C35: met with the same outcomes attempt by attempt, uploadMultipart and
\* request send the same number of attempts, sleep the same delays before
\* the same attempts, and end in the same way: the same value returned, the
\* same error thrown, or the same attempt still awaited.
C35_SameRetryPolicy ==
    output.fn = "request" => Anonymous(output.multipart) = Anonymous(output.json)

\* C35 witness: with three attempts allowed, a 500, a connection error and a
\* timeout: both calls slept 2000 and 4000 ms and threw the timeout
C35_Witness ==
    /\ output.fn = "request"
    /\ maxRetries = 3
    /\ Len(input.outcomes) = 3
    /\ input.outcomes[1].status = 500
    /\ input.outcomes[2].kind = "error"
    /\ input.outcomes[3].kind = "timeout"
    /\ output.multipart.call.phase = "thrown"
    /\ output.multipart.call.error = PlainError("Request timeout", 2)
    /\ output.multipart.wire.attempts = 3
    /\ output.multipart.wire.sleeps = <<2000, 4000>>
    /\ output.json.wire.sleeps = <<2000, 4000>>

\* ----------------------------------------------------------------- C36
\* an attempt answered 2xx with a body that parses
Success(o) == o.kind = "response" /\ o.status >= 200 /\ o.status < 300 /\ o.bodyOk

\* an attempt answered with a status in [400,500)
Refusal(o) == o.kind = "response" /\ o.status >= 400 /\ o.status < 500

\* attempt k (1-based) of the call is sent: it is within maxRetries and every
\* attempt before it failed with something other than a 4xx
Sent(k) ==
    /\ k <= maxRetries
    /\ \A j \in 1..(k - 1) : ~Success(input.outcomes[j]) /\ ~Refusal(input.outcomes[j])

\* C36: request never sends more than maxRetries attempts; when attempt k is
\* the first answered 2xx with a parsable body, the call returns with k
\* attempts sent and k - 1 sleeps slept, whatever outcomes would follow, and
\* the value returned is the parsed body of attempt k; a call returns in no
\* other case.
C36_StopsAtFirstSuccess ==
    output.fn = "request" =>
        LET st == output.json
            os == input.outcomes
        IN /\ st.wire.attempts <= (IF maxRetries > 0 THEN maxRetries ELSE 0)
           /\ \A k \in 1..Len(os) :
                 (Sent(k) /\ Success(os[k])) =>
                     /\ st.call.phase = "returned"
                     /\ st.call.value = Parsed(os[k], k - 1)
                     /\ st.wire.attempts = k
                     /\ Len(st.wire.sleeps) = k - 1
           /\ st.call.phase = "returned" =>
                 \E k \in 1..Len(os) : Sent(k) /\ Success(os[k])

\* C36 witness: three attempts allowed; the first is answered 500, the second
\* 200, and the outcomes after it are not used: two attempts, one sleep, the
\* second attempt's body returned
C36_Witness ==
    /\ output.fn = "request"
    /\ maxRetries = 3
    /\ Len(input.outcomes) = 4
    /\ input.outcomes[1].status = 500
    /\ Success(input.outcomes[2])
    /\ input.outcomes[3].kind = "timeout"
    /\ output.json.call.phase = "returned"
    /\ output.json.call.value.at = 1
    /\ output.json.wire.attempts = 2
    /\ output.json.wire.sleeps = <<2000>>

\* ----------------------------------------------------------------- C37
\* C37 (as claimed): whatever maxRetries is, zero and negative values
\* included, a logical call that has ended sent at least one HTTP attempt,
\* and an error it threw is the error of one of its attempts.
C37_AtLeastOneAttempt ==
    settled(call) =>
        /\ wire.attempts >= 1
        /\ call.phase = "thrown" => call.error.at \in 0..(wire.attempts - 1)

\* ----------------------------------------------------------------- C38
\* an attempt answered 2xx with a body that JSON.parse rejects
Unparsable(o) == o.kind = "response" /\ o.status >= 200 /\ o.status < 300 /\ ~o.bodyOk

\* an attempt answered with a status outside [200,300) and [400,500)
OtherStatus(o) ==
    /\ o.kind = "response"
    /\ o.status < 200 \/ o.status >= 300
    /\ o.status < 400 \/ o.status >= 500

\* the error makeRequest rejects with for such an attempt
Rejection(o, at) ==
    IF Unparsable(o) THEN PlainError("Failed to parse response", at)
    ELSE APIError(o.status, at)

\* C38: when attempt k was answered 2xx with a body that does not parse, or
\* with a status outside [200,300) and [400,500), and attempts are left,
\* request sleeps the backoff of attempt k and sends the next attempt; when
\* none is left it throws that attempt's error, a parse error or an APIError.
\* An empty 2xx body ends the call with the empty object as its value.
C38_ParseErrorRetried ==
    output.fn = "request" =>
        LET st == output.json
            os == input.outcomes
        IN \A k \in 1..Len(os) :
              /\ (Sent(k) /\ (Unparsable(os[k]) \/ OtherStatus(os[k]))) =>
                    IF k < maxRetries
                    THEN /\ Len(st.wire.sleeps) >= k
                         /\ st.wire.sleeps[k] = backoff(k)
                         /\ k < Len(os) => st.wire.attempts >= k + 1
                    ELSE /\ st.call.phase = "thrown"
                         /\ st.call.error = Rejection(os[k], k - 1)
                         /\ st.wire.attempts = k
              /\ (Sent(k) /\ Success(os[k]) /\ os[k].empty) =>
                    /\ st.call.phase = "returned"
                    /\ st.call.value.empty
                    /\ st.call.value.id = ""
                    /\ st.wire.attempts = k

\* C38 witness: three attempts allowed, each answered 200 with a body that
\* does not parse: the service acted on all three, two sleeps, and the parse
\* error of the third is thrown
C38_Witness ==
    /\ output.fn = "request"
    /\ maxRetries = 3
    /\ Len(input.outcomes) = 3
    /\ \A k \in 1..3 : Unparsable(input.outcomes[k])
    /\ output.json.call.phase = "thrown"
    /\ output.json.call.error = PlainError("Failed to parse response", 2)
    /\ output.json.wire.attempts = 3
    /\ output.json.wire.served = 3
    /\ output.json.wire.sleeps = <<2000, 4000>>

\* C38 witness of the empty body: the second attempt is answered 200 with an
\* empty body and the call returns the empty object
C38_WitnessEmpty ==
    /\ output.fn = "request"
    /\ Len(input.outcomes) = 2
    /\ input.outcomes[1].status = 500
    /\ input.outcomes[2].empty
    /\ output.json.call.phase = "returned"
    /\ output.json.call.value.empty

\* ----------------------------------------------------------------- C39
\* C39 (as claimed): under every accepted configuration, once onEnd has been
\* called it resolves or rejects, provided every HTTP attempt is answered,
\* fails or times out.
C39_FinalizationTerminates ==
    (pc \in {"sendTestResults", "completeTestRun", "batchArray"}) ~> (pc = "done")

\* --------------------------------------------- the aggregator as a function
\* the longest callback history of one test
MaxCallbacks == 3

\* the callbacks the host delivers for one test
Callbacks ==
    [kind : {"begin"}, retry : 0..MaxTestRetries, status : {Unset}]
    \cup [kind : {"end"}, retry : 0..MaxTestRetries, status : {"passed", "failed", "skipped"}]

\* the callbacks of one test, in order: a test-begin, the test-end of the
\* same attempt, the test-begin of another attempt, and so on
Histories ==
    {h \in UNION {[1..n -> Callbacks] : n \in 0..MaxCallbacks} :
        \A n \in 1..Len(h) :
            IF n % 2 = 1 THEN h[n].kind = "begin"
            ELSE h[n].kind = "end" /\ h[n].retry = h[n - 1].retry}

\* how often key k occurs in the order o
RECURSIVE Occurs(_, _)
Occurs(o, k) ==
    IF o = <<>> THEN 0 ELSE (IF Head(o) = k THEN 1 ELSE 0) + Occurs(Tail(o), k)

\* the orders in which the host may deliver la callbacks of test "a" and lb
\* callbacks of test "b": whose callback comes next
Orders(la, lb) == {o \in [1..(la + lb) -> Tests2] : Occurs(o, "a") = la}

\* the map and the counters of a reporter
NoTests == [tests |-> <<>>, total |-> 0, passed |-> 0, failed |-> 0, skipped |-> 0]

\* the reporter after onTestBegin(test, result)
afterTestBegin(st, key, retry) ==
    [st EXCEPT !.tests = MapSet(@, [key |-> key, retry |-> retry, status |-> Unset,
                                    ended |-> FALSE])]

\* the reporter after onTestEnd(test, result)
afterTestEnd(st, key, retry, status) ==
    IF ~MapHas(st.tests, key) THEN st
    ELSE LET one == IF isFinal(key, retry) THEN 1 ELSE 0
         IN [tests |-> [st.tests EXCEPT ![MapIndex(st.tests, key)] =
                           [key |-> key, retry |-> retry, status |-> status,
                            ended |-> TRUE]],
             total |-> st.total + one,
             passed |-> st.passed + (IF status = "passed" THEN one ELSE 0),
             failed |-> st.failed + (IF status \in {"failed", "timedOut"} THEN one ELSE 0),
             skipped |-> st.skipped
                           + (IF status \in {"skipped", "interrupted"} THEN one ELSE 0)]

\* the reporter after the callbacks of the histories h, delivered in order o
RECURSIVE deliver(_, _, _)
deliver(st, h, o) ==
    IF o = <<>> THEN st
    ELSE LET k == Head(o)
             c == Head(h[k])
             next == IF c.kind = "begin" THEN afterTestBegin(st, k, c.retry)
                     ELSE afterTestEnd(st, k, c.retry, c.status)
         IN deliver(next, [h EXCEPT ![k] = Tail(@)], Tail(o))

\* sendTestResults: the records made of the map, in the Map's order
resultsOf(st) ==
    LET final == SelectSeq(st.tests, selected)
    IN [n \in 1..Len(final) |-> convertTestResult(final[n])]

\* the same callbacks are delivered to two reporters, in the order
\* input.order and test after test
callDeliver ==
    /\ input.fn = "deliver"
    /\ output = NoOutput
    /\ output' = [fn |-> "deliver",
                  mixed |-> deliver(NoTests, input.h, input.order),
                  serial |-> deliver(NoTests, input.h,
                                     [n \in 1..Len(input.h["a"]) |-> "a"]
                                         \o [n \in 1..Len(input.h["b"]) |-> "b"])]
    /\ UNCHANGED <<stateVars, input>>

InitOrder ==
    /\ \E h \in [Tests2 -> Histories] :
          \E o \in Orders(Len(h["a"]), Len(h["b"])) :
              input = [fn |-> "deliver", h |-> h, order |-> o]
    /\ output = NoOutput
    /\ options = DefaultOptions
    /\ maxRetries = DefaultMaxRetries
    /\ retries = [k \in Tests2 |-> MaxTestRetries]
    /\ Fresh(Tests2)

NextOrder == callDeliver

SpecOrder == InitOrder /\ [][NextOrder]_vars

\* ----------------------------------------------------------------- C40
\* the set of the records of a sequence
Range(s) == {s[n] : n \in 1..Len(s)}

\* the four counters of a reporter
Counters(st) == <<st.total, st.passed, st.failed, st.skipped>>

\* C40: the callbacks of two tests, delivered in any order that keeps the
\* order of each test's own callbacks, leave the same four counters and the
\* same set of records to transmit as the same callbacks delivered test
\* after test; so any two such orders agree.
C40_InterleavingIndependent ==
    output.fn = "deliver" =>
        /\ Counters(output.mixed) = Counters(output.serial)
        /\ Range(resultsOf(output.mixed)) = Range(resultsOf(output.serial))

\* C40 witness: b's terminal attempt begins first and ends after the retry of
\* a has begun; one test is counted and the records of both entries are
\* selected, in the Map's order b, a instead of a, b
C40_Witness ==
    /\ output.fn = "deliver"
    /\ input.order = <<"b", "a", "a", "b", "a">>
    /\ input.h["a"][2].status = "failed"
    /\ input.h["a"][2].retry = 0
    /\ input.h["a"][3].retry = 1
    /\ input.h["b"][2].retry = 1
    /\ input.h["b"][2].status = "passed"
    /\ output.mixed.total = 1
    /\ Len(resultsOf(output.mixed)) = 2
    /\ resultsOf(output.mixed) # resultsOf(output.serial)

====
